---------------------------- MODULE Spec2Model ----------------------------
(***************************************************************************)
(* Model of the tenant-scoped numbering, stock reservation, order/tab      *)
(* lifecycle and order/tab -> sale conversion of imperio_saas/routes.py.   *)
(*                                                                         *)
(* Persistence is modelled as PostgreSQL at READ COMMITTED behind a        *)
(* SQLAlchemy session (autoflush=False, expire_on_commit=True):            *)
(*   - every SELECT sees the rows committed at the moment it runs;         *)
(*   - an entity the session already holds with pending changes is         *)
(*     returned from the identity map, its attributes not overwritten;     *)
(*   - flush writes the changed columns with absolute values               *)
(*     (UPDATE .. SET col = <value in the session>);                       *)
(*   - SELECT .. FOR UPDATE on the store row waits for the holder of the   *)
(*     row lock, and the lock is released by the next commit or rollback;  *)
(*   - a session closed without commit rolls back.                         *)
(* The Store loaded by require_auth is referenced by nothing once          *)
(* require_auth returns (SimpleUser copies scalars), so the weak identity  *)
(* map has dropped it when _alloc_number selects the row FOR UPDATE.       *)
(* Money is a Float in the code; prices here are small integers, on        *)
(* which float arithmetic is exact.                                        *)
(***************************************************************************)
EXTENDS Integers, Sequences, FiniteSets, TLC

\* ------------------------------------------------------------ bounds
MaxRequests == 3    \* requests accepted in one behaviour
MaxLines == 2       \* lines reserved by one order/sale submission
InitStock == 1      \* stock every catalogued product starts with
MaxHour == 2        \* latest clock reading is_subscription_ok is tried on

\* ------------------------------------------------------------ constants
NumberWidth == 6    \* f"{seq:06d}"
NULL == 0           \* a NULL id column / None
TrialDays == 7      \* timedelta(days=7)
HoursPerDay == 24   \* timedelta(days=7) on datetimes counted in hours

\* Requests in flight at a time (worker threads of the threadpool).
Req == {1, 2}
Tenants == {1, 2}
\* The tenant whose users send the requests of Spec.
ActiveTenants == {1}
\* Catalogue: product 1 belongs to store 1, product 2 to store 2.
ProductIds == {1, 2}
\* Product ids a form may carry: the catalogue and an unknown id.
FormProductIds == ProductIds \cup {9}
QtyInputs == {0, 1, 2}
\* Values of the status field of POST /orders/{oid}/status.
StatusInputs == {"saiu", "entregue", "Entregue ", "cancelado", "pago"}
\* Keys of store_features rows the handlers gate on.
FeatureKeys == {"segment_orders", "core_sales", "segment_tables"}
\* Values of the enabled column (Integer, nullable=False).
EnabledValues == {0, 1, 2}
\* Values of the status field of POST /orders/new (Form("novo")).
NewOrderStatusInputs == {"novo", "entregue"}

VARIABLES
    stores,       \* stores[t]: the row of tenant t (counters, segment, plan, subscription)
    products,     \* products[p]: committed row of product p
    orders,       \* committed orders, id = index
    order_items,  \* committed order_items rows, in insertion order
    sales,        \* committed sales, id = index
    sale_items,   \* committed sale_items rows
    tabs,         \* committed bar tabs, id = index
    tab_items,    \* committed tab items
    lock,         \* lock[t]: request holding the row lock on store t, or 0
    nreq,         \* requests accepted so far
    pc,           \* pc[r]: position of request r in its handler
    req,          \* req[r]: locals and session state of request r
    features,     \* committed store_features rows
    gate,         \* the last call of require_feature and its outcome
    now,          \* the clock, datetime.now(timezone.utc)
    access        \* the last call of is_subscription_ok and its outcome

db == <<stores, products, orders, order_items, sales, sale_items, tabs, tab_items>>
vars == <<stores, products, orders, order_items, sales, sale_items, tabs,
          tab_items, lock, nreq, pc, req, features, gate, now, access>>

\* ------------------------------------------------------------ helpers
RECURSIVE Digits(_)
Digits(n) == IF n < 10 THEN <<n>> ELSE Digits(n \div 10) \o <<n % 10>>

RECURSIVE ZeroPad(_, _)
ZeroPad(ds, w) == IF Len(ds) >= w THEN ds ELSE ZeroPad(<<0>> \o ds, w)

\* f"{prefix}-{seq:06d}": the prefix followed by the zero-padded digits.
FormatNumber(prefix, seq) == <<prefix>> \o ZeroPad(Digits(seq), NumberWidth)

\* Mutant: the default is returned whatever the counter holds.
SeqDefault(v) == 1

\* int(store.next_x_seq or 1)
SeqOr1(v) == IF v = NULL THEN 1 ELSE v

\* q = int(qtys[i] or 1); if q < 1: q = 1
NormQty(q) == IF q < 1 THEN 1 ELSE q

RECURSIVE SumLineTotal(_)
SumLineTotal(items) ==
    IF items = <<>> THEN 0 ELSE Head(items).line_total + SumLineTotal(Tail(items))

RECURSIVE SumQty(_)
SumQty(items) == IF items = <<>> THEN 0 ELSE Head(items).qty + SumQty(Tail(items))

\* db.query(OrderItem).filter(OrderItem.order_id == oid).all()
OrderItemsOf(oid) == LET T(it) == it.order_id = oid IN SelectSeq(order_items, T)
SaleItemsOf(sid) == LET T(it) == it.sale_id = sid IN SelectSeq(sale_items, T)
TabItemsOf(tid) == LET T(it) == it.tab_id = tid IN SelectSeq(tab_items, T)

\* The item columns a line snapshot carries.
Snapshot(it) == [product_name |-> it.product_name, qty |-> it.qty,
                 price |-> it.price, line_total |-> it.line_total]
Snapshots(items) == [i \in 1..Len(items) |-> Snapshot(items[i])]

\* SaleItem(sale_id=sale.id, product_name=it.product_name, qty=it.qty, ...)
CopyToSaleItem(sid, it) == [sale_id |-> sid, product_name |-> it.product_name,
                            qty |-> it.qty, price |-> it.price,
                            line_total |-> it.line_total]
\* Mutant: the copy loop stops one item early.
CopyAllButLast(sid, items) ==
    [i \in 1..(Len(items) - 1) |-> CopyToSaleItem(sid, items[i])]

\* for it in items: db.add(SaleItem(sale_id=sale.id, ...))
CopyToSaleItems(sid, items) == [i \in 1..Len(items) |-> CopyToSaleItem(sid, items[i])]

NoDoc == [id |-> NULL, status |-> "", total |-> 0, customer_name |-> "",
          converted_sale_id |-> NULL]

Idle == [op |-> "", store_id |-> NULL, status |-> "", total |-> 0, items |-> <<>>,
         pstock |-> <<>>, seq |-> 0,
         doc |-> NoDoc, src |-> <<>>, convert |-> FALSE, new_id |-> NULL,
         result |-> "", detail |-> "", role |-> "", form |-> ""]

\* The store_features rows with which every tenant may run every operation.
OpenFlags == {[store_id |-> t, key |-> k, enabled |-> 1] : t \in Tenants, k \in FeatureKeys}

\* No call of require_feature yet.
NoGate == [store_id |-> NULL, key |-> "", outcome |-> ""]

\* No call of is_subscription_ok yet.
NoAccess == [ok |-> FALSE, msg |-> "", raised |-> FALSE, called |-> FALSE]

\* ------------------------------------------------------------ time
\* A datetime: wall-clock reading, utc offset and whether it carries a tzinfo
\* ("aware"), carries none ("naive") or is None ("none").  The unit is an hour.
NoTime == [kind |-> "none", wall |-> 0, off |-> 0]
Utc(i) == [kind |-> "aware", wall |-> i, off |-> 0]

\* utcnow() + timedelta(days=7)
TrialEnd(clock) == Utc(clock + TrialDays * HoursPerDay)

\* ------------------------------------------------------------ store_features
FlagRows == [store_id : Tenants, key : FeatureKeys, enabled : EnabledValues]

\* UniqueConstraint("store_id", "key", name="uq_store_feature")
UniqueFlags(rows) ==
    \A f, g \in rows : (f.store_id = g.store_id /\ f.key = g.key) => f = g

\* f = db.query(StoreFeature).filter(StoreFeature.store_id == store_id,
\*                                  StoreFeature.key == key).first()
FlagRow(t, key) == {f \in features : f.store_id = t /\ f.key = key}

\* Mutant: a missing row lets the operation proceed.
FailsOpen(t, key) == \A f \in FlagRow(t, key) : f.enabled = 1

\* not (not f or int(f.enabled) != 1)
FeatureEnabled(t, key) == \E f \in FlagRow(t, key) : f.enabled = 1

\* ------------------------------------------------------------ initial state
\* The documents, sessions and probes before the first request.
InitDocs ==
    /\ products = [p \in ProductIds |->
                    [store_id |-> p, name |-> p,
                     price |-> p + 1, stock |-> InitStock]]
    /\ orders = <<>>
    /\ order_items = <<>>
    /\ sales = <<>>
    /\ sale_items = <<>>
    /\ tabs = <<>>
    /\ tab_items = <<>>
    /\ lock = [t \in Tenants |-> 0]
    /\ nreq = 0
    /\ pc = [r \in Req |-> "idle"]
    /\ req = [r \in Req |-> Idle]
    /\ gate = NoGate
    /\ access = NoAccess

\* Store(name, segment, plan="basic", subscription_status="trial") after
\* ensure_trial() at time clock; the counters take their column default 1.
NewStore(segment, clock) ==
    [exists |-> TRUE, segment |-> segment, plan |-> "basic",
     subscription_status |-> "trial", paid_until |-> TrialEnd(clock),
     next_order_seq |-> 1, next_sale_seq |-> 1, next_tab_seq |-> 1]

\* The tables before the first request: every tenant was set up at time 0.
InitTables ==
    /\ InitDocs
    /\ now = 0
    /\ stores = [t \in Tenants |-> NewStore("deposito", 0)]

Init ==
    /\ InitTables
    /\ features = OpenFlags

\* ------------------------------------------------------------ is_subscription_ok
\* Mutant: paid_until is compared as it was read from the row.
NotNormalized(p) == p

\* paid_until.replace(tzinfo=timezone.utc) for a naive value, which keeps the
\* wall-clock reading; paid_until.astimezone(timezone.utc) for an aware one,
\* which keeps the instant.
Normalized(p) ==
    IF p.kind = "naive"
      THEN [kind |-> "aware", wall |-> p.wall, off |-> 0]
      ELSE [kind |-> "aware", wall |-> p.wall - p.off, off |-> 0]

\* a < b of two datetimes raises TypeError when exactly one of them is naive.
Comparable(a, b) == a.kind = b.kind

\* a < b: aware datetimes are ordered by their instants.
Earlier(a, b) == a.wall - a.off < b.wall - b.off

Granted == [ok |-> TRUE, msg |-> "", raised |-> FALSE, called |-> TRUE]
Denied(msg) == [ok |-> FALSE, msg |-> msg, raised |-> FALSE, called |-> TRUE]
\* The call ends in an exception instead of a result.
Raised(exc) == [ok |-> FALSE, msg |-> exc, raised |-> TRUE, called |-> TRUE]

\* is_subscription_ok(store) at time clock.  The messages are abbreviated:
\* "suspended" (Sua assinatura esta suspensa.), "trial_ended" (Seu teste
\* gratis terminou...), "expired" (Assinatura vencida...), "past_due"
\* (Pagamento pendente...), "blocked" (Acesso bloqueado.).
is_subscription_ok(store, clock) ==
    LET utc_now == Utc(clock)
        paid_until == IF store.paid_until.kind # "none"
                        THEN Normalized(store.paid_until)
                        ELSE store.paid_until
        set == paid_until.kind # "none"
        status == store.subscription_status
    IN  IF status = "suspended" THEN Denied("suspended")
        ELSE IF status \in {"active", "trial"}
          THEN IF set /\ ~Comparable(paid_until, utc_now) THEN Raised("TypeError")
               ELSE IF set /\ Earlier(paid_until, utc_now) /\ status # "active"
                 THEN Denied("trial_ended")
               ELSE IF set /\ Earlier(paid_until, utc_now) /\ status = "active"
                 THEN Denied("expired")
               ELSE Granted
        ELSE IF status = "past_due" THEN Denied("past_due")
        ELSE Denied("blocked")

\* ------------------------------------------------------------ require_auth
Ops == {"order_new_action", "sale_new_action", "order_update_status",
        "tab_new_action", "tab_add_item", "tab_close"}
\* Handlers behind require_auth that call no require_feature.
SettingsOps == {"settings_segment", "settings_plan"}
\* The handlers that write the catalogue.
ProductOps == {"products_create", "products_delete"}

FirstPc(op) == CASE op = "order_new_action" -> "on_line"
                 [] op = "sale_new_action" -> "sn_line"
                 [] op = "order_update_status" -> "ou_load"
                 [] op = "tab_new_action" -> "tn_alloc"
                 [] op = "tab_add_item" -> "ta_load"
                 [] op = "tab_close" -> "tc_load"
                 [] op = "settings_segment" -> "ss_role"
                 [] op = "settings_plan" -> "sp_role"
                 [] op = "products_create" -> "pc_create"
                 [] op = "products_delete" -> "pd_delete"

\* The flag each handler passes to require_feature as its first statement.
FeatureKey(op) == CASE op = "order_new_action" -> "segment_orders"
                    [] op = "order_update_status" -> "segment_orders"
                    [] op = "sale_new_action" -> "core_sales"
                    [] op = "tab_new_action" -> "segment_tables"
                    [] op = "tab_add_item" -> "segment_tables"
                    [] op = "tab_close" -> "segment_tables"
                    [] op = "products_create" -> "core_products"
                    [] op = "products_delete" -> "core_products"

\* Mutant: the handler runs whatever the flag says.
GateSkipped(t, op) == TRUE

\* require_feature(db, user.store_id, <key>), the first statement of handler op.
GatePasses(t, op) == op \in Ops \cup ProductOps => FeatureEnabled(t, FeatureKey(op))

\* Mutant: the subscription is not looked at.
SubscriptionIgnored(t) == Granted

\* ok, msg = is_subscription_ok(s) on the store row require_auth has loaded.
SubscriptionOf(t) == is_subscription_ok(stores[t], now)

\* A request arrives with the cookies of a user of store t.  require_auth finds
\* the user and the store, raises HTTPException(402, msg) when the subscription
\* check fails and returns SimpleUser(store_id = t) otherwise; the handler then
\* starts with require_feature, which raises HTTPException(403) or returns.
\* Both exceptions end the request before the handler has read or written
\* anything else.  Worker r takes the request only when the workers before it
\* are busy (workers are interchangeable).
require_auth(r, t, op) ==
    /\ pc[r] = "idle"
    /\ \A q \in Req : q < r => pc[q] # "idle"
    /\ nreq < MaxRequests
    /\ stores[t].exists
    /\ nreq' = nreq + 1
    /\ LET sub == SubscriptionOf(t)
           started == [Idle EXCEPT !.op = op, !.store_id = t]
       IN  IF sub.raised
             THEN /\ pc' = [pc EXCEPT ![r] = "ret"]
                  /\ req' = [req EXCEPT ![r] = [started EXCEPT !.result = "500",
                                                               !.detail = sub.msg]]
           ELSE IF ~sub.ok
             THEN /\ pc' = [pc EXCEPT ![r] = "ret"]
                  /\ req' = [req EXCEPT ![r] = [started EXCEPT !.result = "402",
                                                               !.detail = sub.msg]]
           ELSE IF ~GatePasses(t, op)
             THEN /\ pc' = [pc EXCEPT ![r] = "ret"]
                  /\ req' = [req EXCEPT ![r] = [started EXCEPT !.result = "403"]]
           ELSE /\ pc' = [pc EXCEPT ![r] = FirstPc(op)]
                /\ req' = [req EXCEPT ![r] = started]
    /\ UNCHANGED <<db, lock, features, gate, now, access>>

\* Mutant: the session is committed, not rolled back, when it is closed.
get_db_close_commits(r) ==
    /\ pc[r] = "ret"
    /\ pc' = [pc EXCEPT ![r] = "idle"]
    /\ req' = [req EXCEPT ![r] = Idle]
    /\ lock' = [t \in Tenants |-> IF lock[t] = r THEN 0 ELSE lock[t]]
    /\ products' = [p \in ProductIds |->
                      IF p \in DOMAIN req[r].pstock
                        THEN [products[p] EXCEPT !.stock = req[r].pstock[p]]
                        ELSE products[p]]
    /\ UNCHANGED <<stores, orders, order_items, sales, sale_items, tabs, tab_items, nreq, features, gate, now, access>>

\* get_db: finally db.close().  The session ends; what was not committed is
\* rolled back and the row lock it may hold is released.
get_db_close(r) ==
    /\ pc[r] = "ret"
    /\ pc' = [pc EXCEPT ![r] = "idle"]
    /\ req' = [req EXCEPT ![r] = Idle]
    /\ lock' = [t \in Tenants |-> IF lock[t] = r THEN 0 ELSE lock[t]]
    /\ UNCHANGED <<db, nreq, features, gate, now, access>>

\* The handler returns after its last commit: the session holds nothing
\* pending and the handler's locals are gone.
Return(r, result) ==
    /\ pc' = [pc EXCEPT ![r] = "ret"]
    /\ req' = [req EXCEPT ![r] = [Idle EXCEPT !.op = req[r].op,
                                              !.store_id = req[r].store_id,
                                              !.result = result]]

\* The handler returns early, without commit: what the session changed stays
\* pending in it until get_db closes the session.
ReturnEarly(r, result) ==
    /\ pc' = [pc EXCEPT ![r] = "ret"]
    /\ req' = [req EXCEPT ![r].result = result]

\* ------------------------------------------------------------ _alloc_number
\* Mutant: every kind counts on the sale counter.
CounterOfSales(kind) == "next_sale_seq"

\* store.next_order_seq, store.next_sale_seq or store.next_tab_seq by kind.
Counter(kind) == CASE kind = "P" -> "next_order_seq"
                   [] kind = "V" -> "next_sale_seq"
                   [] OTHER -> "next_tab_seq"

\* Mutant: a plain SELECT, which waits for no lock.
LockIgnored(r, t) == TRUE

\* Mutant: the lock is taken on the stores table, not on the row.
LockOfTable(r, t) == \A u \in Tenants : lock[u] \in {0, r}

\* with_for_update(): the SELECT returns once no other transaction holds the
\* row lock of store t.
LockFree(r, t) == lock[t] \in {0, r}

\* Mutant: the row is taken to be there.
StoreAssumed(t) == FALSE

\* store = db.query(Store).filter(Store.id == store_id)...first(); `if not store`
StoreMissing(t) == ~stores[t].exists

\* _alloc_number(db, store_id, kind) up to `number = ...`: raises
\* HTTPException(400) when the store row is gone, else takes the row lock
\* and reads the counter.  The caller's commit writes seq + 1 back.
alloc_number(r, kind, next) ==
    LET t == req[r].store_id IN
    IF StoreMissing(t)
      THEN /\ ReturnEarly(r, "400")
           /\ UNCHANGED lock
      ELSE /\ LockFree(r, t)
           /\ lock' = [lock EXCEPT ![t] = r]
           /\ pc' = [pc EXCEPT ![r] = next]
           /\ req' = [req EXCEPT ![r].seq = SeqOr1(stores[t][Counter(kind)])]

\* Mutant: the counter is written back without the increment.
StoreAfterAllocNoIncrement(t, kind, seq) == [stores EXCEPT ![t][Counter(kind)] = seq]

\* The store row as the commit of r leaves it: the counter r allocated from
\* becomes seq + 1.
StoreAfterAlloc(t, kind, seq) == [stores EXCEPT ![t][Counter(kind)] = seq + 1]

\* Mutant: the commit keeps the row lock.
LockKept(r) == lock

\* The lock table after the commit of r.
Unlocked(r) == [t \in Tenants |-> IF lock[t] = r THEN 0 ELSE lock[t]]

\* ------------------------------------------------------------ stock ledger
\* p = db.query(Product).filter(Product.id == pid, Product.store_id == store).first()
ProductFound(r, pid) == pid \in ProductIds /\ products[pid].store_id = req[r].store_id

\* p.stock as the session sees it: the pending value when the session already
\* changed this product, else the committed one.
StockSeen(r, pid) ==
    IF pid \in DOMAIN req[r].pstock THEN req[r].pstock[pid] ELSE products[pid].stock

\* Mutant: the stock check is missing.
NeverInsufficient(stock, q) == FALSE

\* if p.stock < q: return RedirectResponse(... "Estoque insuficiente" ...)
Insufficient(stock, q) == stock < q

\* Mutant: the line is recorded and the stock is left as it was.
ReserveWithoutDecrement(r, pid, q) ==
    LET lt == products[pid].price * q
        it == [product_name |-> products[pid].name, qty |-> q,
               price |-> products[pid].price, line_total |-> lt]
        ps == req[r].pstock
    IN [req[r] EXCEPT !.total = @ + lt,
                      !.items = Append(@, it),
                      !.pstock = [p \in DOMAIN ps \cup {pid} |->
                                    IF p = pid THEN StockSeen(r, pid) ELSE ps[p]]]

\* line_total = float(p.price) * q; the item snapshot; p.stock -= q
Reserve(r, pid, q) ==
    LET lt == products[pid].price * q
        it == [product_name |-> products[pid].name, qty |-> q,
               price |-> products[pid].price, line_total |-> lt]
        ps == req[r].pstock
        left == StockSeen(r, pid) - q
    IN [req[r] EXCEPT !.total = @ + lt,
                      !.items = Append(@, it),
                      !.pstock = [p \in DOMAIN ps \cup {pid} |->
                                    IF p = pid THEN left ELSE ps[p]]]

\* One iteration of `for i in range(n)` of order_new_action / sale_new_action.
ProcessLine(r, pid, qraw) ==
    LET q == NormQty(qraw) IN
    /\ Len(req[r].items) < MaxLines
    /\ IF ~ProductFound(r, pid)
         THEN UNCHANGED <<pc, req>>                          \* continue
         ELSE IF Insufficient(StockSeen(r, pid), q)
         THEN ReturnEarly(r, "insufficient")
         ELSE /\ req' = [req EXCEPT ![r] = Reserve(r, pid, q)]
              /\ UNCHANGED pc
    /\ UNCHANGED <<db, lock, nreq, features, gate, now, access>>

\* flush of the products the session changed: UPDATE products SET stock = <value>
FlushStock(r) ==
    [p \in ProductIds |->
        IF p \in DOMAIN req[r].pstock
          THEN [products[p] EXCEPT !.stock = req[r].pstock[p]]
          ELSE products[p]]

\* ------------------------------------------------------------ order_new_action
order_new_action_line(r) ==
    /\ pc[r] = "on_line"
    /\ \E pid \in FormProductIds, q \in QtyInputs : ProcessLine(r, pid, q)

order_new_action_alloc(r) ==
    /\ pc[r] = "on_line"
    /\ alloc_number(r, "P", "on_commit1")
    /\ UNCHANGED <<db, nreq, features, gate, now, access>>

\* db.add(order); db.commit(); db.refresh(order)
NewOrder(r, status) ==
    [store_id |-> req[r].store_id, customer_name |-> "Ana", status |-> status,
     total |-> req[r].total, number |-> FormatNumber("P", req[r].seq),
     converted_sale_id |-> NULL]

order_new_action_commit(r) ==
    LET t == req[r].store_id IN
    /\ pc[r] = "on_commit1"
    /\ \E status \in NewOrderStatusInputs : orders' = Append(orders, NewOrder(r, status))
    /\ stores' = StoreAfterAlloc(t, "P", req[r].seq)
    /\ products' = FlushStock(r)
    /\ lock' = Unlocked(r)
    /\ pc' = [pc EXCEPT ![r] = "on_commit2"]
    /\ req' = [req EXCEPT ![r].new_id = Len(orders) + 1, ![r].pstock = <<>>]
    /\ UNCHANGED <<order_items, sales, sale_items, tabs, tab_items, nreq, features, gate, now, access>>

\* for it in items: it.order_id = order.id; db.add(it) -- db.commit()
order_new_action_items(r) ==
    /\ pc[r] = "on_commit2"
    /\ order_items' = order_items \o
          [i \in 1..Len(req[r].items) |->
              [order_id |-> req[r].new_id] @@ req[r].items[i]]
    /\ Return(r, "pedido_salvo")
    /\ UNCHANGED <<stores, products, orders, sales, sale_items, tabs, tab_items, lock, nreq, features, gate, now, access>>

\* ------------------------------------------------------------ sale_new_action
\* if not product_ids: return RedirectResponse("/sales/new")
sale_new_action_empty(r) ==
    /\ pc[r] = "sn_line"
    /\ req[r].items = <<>>
    /\ ReturnEarly(r, "redirect")
    /\ UNCHANGED <<db, lock, nreq, features, gate, now, access>>

sale_new_action_line(r) ==
    /\ pc[r] = "sn_line"
    /\ \E pid \in FormProductIds, q \in QtyInputs : ProcessLine(r, pid, q)

sale_new_action_alloc(r) ==
    /\ pc[r] = "sn_line"
    /\ alloc_number(r, "V", "sn_commit1")
    /\ UNCHANGED <<db, nreq, features, gate, now, access>>

\* db.add(sale); db.commit(); db.refresh(sale)
sale_new_action_commit(r) ==
    LET t == req[r].store_id
        s == [store_id |-> t, customer_name |-> "Ana", status |-> "concluida",
              total |-> req[r].total, number |-> FormatNumber("V", req[r].seq),
              src |-> <<"direct", NULL>>]
    IN
    /\ pc[r] = "sn_commit1"
    /\ sales' = Append(sales, s)
    /\ stores' = StoreAfterAlloc(t, "V", req[r].seq)
    /\ products' = FlushStock(r)
    /\ lock' = Unlocked(r)
    /\ pc' = [pc EXCEPT ![r] = "sn_commit2"]
    /\ req' = [req EXCEPT ![r].new_id = Len(sales) + 1, ![r].pstock = <<>>]
    /\ UNCHANGED <<orders, order_items, sale_items, tabs, tab_items, nreq, features, gate, now, access>>

\* for it in items: it.sale_id = sale.id; db.add(it) -- db.commit()
sale_new_action_items(r) ==
    /\ pc[r] = "sn_commit2"
    /\ sale_items' = sale_items \o CopyToSaleItems(req[r].new_id, req[r].items)
    /\ Return(r, "venda_salva")
    /\ UNCHANGED <<stores, products, orders, order_items, sales, tabs, tab_items, lock, nreq, features, gate, now, access>>

\* ------------------------------------------------------------ order_update_status
\* Mutant: the conversion takes the copied items from stock a second time.
StockTakenAtConversion(r) ==
    [p \in ProductIds |->
        IF req[r].convert /\ products[p].store_id = req[r].store_id
          THEN [products[p] EXCEPT !.stock = @ - SumQty(req[r].src)]
          ELSE products[p]]

\* The products table after the commit of a status change or of a tab close:
\* neither handler nor convert_order_to_sale touches a Product.
StockAfterConversion(r) == products

\* Mutant: the order is looked up by its id alone.
OrderOfAnyStore(r, oid) == oid \in 1..Len(orders)

\* order = db.query(Order).filter(Order.id == oid, Order.store_id == user.store_id).first()
OrderFound(r, oid) == oid \in 1..Len(orders) /\ orders[oid].store_id = req[r].store_id

LoadedDoc(id, row) == [id |-> id, status |-> row.status, total |-> row.total,
                       customer_name |-> row.customer_name,
                       converted_sale_id |-> row.converted_sale_id]

\* (status or "").strip().lower() on the form values of StatusInputs.
StripLower(raw) == IF raw = "Entregue " THEN "entregue" ELSE raw

\* Mutant: a cancellation runs the conversion too.
DeliversOrCancels(status) == status \in {"entregue", "cancelado"}

\* if status == "entregue": convert_order_to_sale(db, order)
Delivers(status) == status = "entregue"

\* order = db.query(Order)...first(); status = (status or "").strip().lower();
\* order.status = status
order_update_status_load(r) ==
    /\ pc[r] = "ou_load"
    /\ \E oid \in 1..(Len(orders) + 1), raw \in StatusInputs :
         LET status == StripLower(raw) IN
         IF ~OrderFound(r, oid)
           THEN ReturnEarly(r, "not_found")
           ELSE /\ req' = [req EXCEPT ![r].doc = LoadedDoc(oid, orders[oid]),
                                      ![r].status = status]
                /\ pc' = [pc EXCEPT ![r] =
                            IF Delivers(status) THEN "cv_items" ELSE "ou_commit"]
    /\ UNCHANGED <<db, lock, nreq, features, gate, now, access>>

\* Mutant: the conversion does not look at converted_sale_id.
NeverConverted(r) == FALSE

\* convert_order_to_sale: `if order.converted_sale_id:` and the lookup of the sale.
AlreadyConverted(r) ==
    LET sid == req[r].doc.converted_sale_id IN
    /\ sid # NULL
    /\ sid \in 1..Len(sales)
    /\ sales[sid].store_id = req[r].store_id

\* convert_order_to_sale up to the OrderItem query.
convert_order_to_sale_items(r) ==
    /\ pc[r] = "cv_items"
    /\ IF AlreadyConverted(r)
         THEN /\ pc' = [pc EXCEPT ![r] = "ou_commit"]
              /\ UNCHANGED req
         ELSE /\ pc' = [pc EXCEPT ![r] = "cv_alloc"]
              /\ req' = [req EXCEPT ![r].src = Snapshots(OrderItemsOf(req[r].doc.id)),
                                    ![r].convert = TRUE]
    /\ UNCHANGED <<db, lock, nreq, features, gate, now, access>>

convert_order_to_sale_alloc(r) ==
    /\ pc[r] = "cv_alloc"
    /\ alloc_number(r, "V", "ou_commit")
    /\ UNCHANGED <<db, nreq, features, gate, now, access>>

\* The orders row after the flush: the status when the request changed it and,
\* after a conversion, converted_sale_id.
OrderWritten(r, sid) ==
    LET oid == req[r].doc.id
        o1 == IF req[r].status # req[r].doc.status
                THEN [orders[oid] EXCEPT !.status = req[r].status] ELSE orders[oid]
    IN IF req[r].convert THEN [o1 EXCEPT !.converted_sale_id = sid] ELSE o1

\* db.flush() and the SaleItems of convert_order_to_sale, then db.commit() of
\* order_update_status.
order_update_status_commit(r) ==
    LET t == req[r].store_id
        oid == req[r].doc.id
        sid == Len(sales) + 1
        s == [store_id |-> t, customer_name |-> req[r].doc.customer_name,
              status |-> "concluida", total |-> req[r].doc.total,
              number |-> FormatNumber("V", req[r].seq), src |-> <<"order", oid>>]
    IN
    /\ pc[r] = "ou_commit"
    /\ orders' = [orders EXCEPT ![oid] = OrderWritten(r, sid)]
    /\ IF req[r].convert
         THEN /\ sales' = Append(sales, s)
              /\ sale_items' = sale_items \o CopyToSaleItems(sid, req[r].src)
              /\ stores' = StoreAfterAlloc(t, "V", req[r].seq)
         ELSE UNCHANGED <<sales, sale_items, stores>>
    /\ products' = StockAfterConversion(r)
    /\ lock' = Unlocked(r)
    /\ Return(r, IF req[r].convert THEN "converted"
                 ELSE IF req[r].status = "entregue" THEN "already_converted"
                 ELSE "status")
    /\ UNCHANGED <<order_items, tabs, tab_items, nreq, features, gate, now, access>>

\* ------------------------------------------------------------ tab_new_action
tab_new_action_alloc(r) ==
    /\ pc[r] = "tn_alloc"
    /\ alloc_number(r, "C", "tn_commit")
    /\ UNCHANGED <<db, nreq, features, gate, now, access>>

\* t = BarTab(..., status="aberta", total=0.0); db.add(t); db.commit()
tab_new_action_commit(r) ==
    LET t == req[r].store_id
        row == [store_id |-> t, table_name |-> "Mesa", status |-> "aberta",
                total |-> 0, number |-> FormatNumber("C", req[r].seq),
                converted_sale_id |-> NULL, closed_at |-> NULL]
    IN
    /\ pc[r] = "tn_commit"
    /\ tabs' = Append(tabs, row)
    /\ stores' = StoreAfterAlloc(t, "C", req[r].seq)
    /\ lock' = Unlocked(r)
    /\ Return(r, "tab")
    /\ UNCHANGED <<products, orders, order_items, sales, sale_items, tab_items, nreq, features, gate, now, access>>

\* ------------------------------------------------------------ tab_add_item
\* t = db.query(BarTab).filter(BarTab.id == tid, BarTab.store_id == user.store_id).first()
TabFound(r, tid) == tid \in 1..Len(tabs) /\ tabs[tid].store_id = req[r].store_id

LoadedTab(id, row) == [id |-> id, status |-> row.status, total |-> row.total,
                       customer_name |-> row.table_name,
                       converted_sale_id |-> row.converted_sale_id]

\* Mutant: the status of the tab is not looked at.
TabOfTenant(r, tid) == TabFound(r, tid)

\* if not t or t.status != "aberta": return RedirectResponse("/tabs")
TabOpen(r, tid) == TabFound(r, tid) /\ tabs[tid].status = "aberta"

tab_add_item_load(r) ==
    /\ pc[r] = "ta_load"
    /\ \E tid \in 1..(Len(tabs) + 1) :
         IF ~TabOpen(r, tid)
           THEN ReturnEarly(r, "tabs")
           ELSE /\ req' = [req EXCEPT ![r].doc = LoadedTab(tid, tabs[tid])]
                /\ pc' = [pc EXCEPT ![r] = "ta_product"]
    /\ UNCHANGED <<db, lock, nreq, features, gate, now, access>>

\* The product query, q = max(int(qty or 1), 1), the stock check and the
\* pending BarTabItem, p.stock -= q and t.total += line_total.
tab_add_item_product(r) ==
    /\ pc[r] = "ta_product"
    /\ \E pid \in FormProductIds, qraw \in QtyInputs :
         LET q == NormQty(qraw) IN
         IF ~ProductFound(r, pid)
           THEN ReturnEarly(r, "err_produto")
           ELSE IF Insufficient(StockSeen(r, pid), q)
           THEN ReturnEarly(r, "err_estoque")
           ELSE /\ req' = [req EXCEPT ![r] = Reserve(r, pid, q)]
                /\ pc' = [pc EXCEPT ![r] = "ta_commit"]
    /\ UNCHANGED <<db, lock, nreq, features, gate, now, access>>

\* db.commit(): INSERT the item, UPDATE products SET stock, UPDATE tabs SET total
tab_add_item_commit(r) ==
    LET tid == req[r].doc.id IN
    /\ pc[r] = "ta_commit"
    /\ tab_items' = tab_items \o
          [i \in 1..Len(req[r].items) |-> [tab_id |-> tid] @@ req[r].items[i]]
    /\ products' = FlushStock(r)
    /\ tabs' = [tabs EXCEPT ![tid].total = req[r].doc.total + req[r].total]
    /\ Return(r, "add")
    /\ UNCHANGED <<stores, orders, order_items, sales, sale_items, lock, nreq, features, gate, now, access>>

\* ------------------------------------------------------------ tab_close
tab_close_load(r) ==
    /\ pc[r] = "tc_load"
    /\ \E tid \in 1..(Len(tabs) + 1) :
         IF ~TabOpen(r, tid)
           THEN ReturnEarly(r, "tabs")
           ELSE /\ req' = [req EXCEPT ![r].doc = LoadedTab(tid, tabs[tid]),
                                      ![r].convert =
                                          (tabs[tid].converted_sale_id = NULL)]
                /\ pc' = [pc EXCEPT ![r] =
                            IF tabs[tid].converted_sale_id = NULL
                              THEN "tc_items" ELSE "tc_commit"]
    /\ UNCHANGED <<db, lock, nreq, features, gate, now, access>>

\* items = db.query(BarTabItem).filter(BarTabItem.tab_id == t.id).all()
tab_close_items(r) ==
    /\ pc[r] = "tc_items"
    /\ req' = [req EXCEPT ![r].src = Snapshots(TabItemsOf(req[r].doc.id))]
    /\ pc' = [pc EXCEPT ![r] = "tc_alloc"]
    /\ UNCHANGED <<db, lock, nreq, features, gate, now, access>>

tab_close_alloc(r) ==
    /\ pc[r] = "tc_alloc"
    /\ alloc_number(r, "V", "tc_commit")
    /\ UNCHANGED <<db, nreq, features, gate, now, access>>

\* Mutant: the tab is closed without the reference to its Sale.
TabWrittenWithoutSale(r, sid) ==
    [tabs[req[r].doc.id] EXCEPT !.status = "fechada", !.closed_at = nreq]

\* The tabs row after the flush: t.converted_sale_id = sale.id after a
\* conversion, t.status = "fechada", t.closed_at = now.
TabWritten(r, sid) ==
    LET t1 == [tabs[req[r].doc.id] EXCEPT !.status = "fechada", !.closed_at = nreq]
    IN IF req[r].convert THEN [t1 EXCEPT !.converted_sale_id = sid] ELSE t1

\* db.flush(), the SaleItems, t.converted_sale_id, t.status = "fechada",
\* t.closed_at = now, db.commit()
tab_close_commit(r) ==
    LET t == req[r].store_id
        tid == req[r].doc.id
        sid == Len(sales) + 1
        s == [store_id |-> tabs[tid].store_id,
              customer_name |-> req[r].doc.customer_name,
              status |-> "concluida", total |-> req[r].doc.total,
              number |-> FormatNumber("V", req[r].seq), src |-> <<"tab", tid>>]
    IN
    /\ pc[r] = "tc_commit"
    /\ tabs' = [tabs EXCEPT ![tid] = TabWritten(r, sid)]
    /\ IF req[r].convert
         THEN /\ sales' = Append(sales, s)
              /\ sale_items' = sale_items \o CopyToSaleItems(sid, req[r].src)
              /\ stores' = StoreAfterAlloc(t, "V", req[r].seq)
         ELSE UNCHANGED <<sales, sale_items, stores>>
    /\ products' = StockAfterConversion(r)
    /\ lock' = Unlocked(r)
    /\ Return(r, "close")
    /\ UNCHANGED <<orders, order_items, tab_items, nreq, features, gate, now, access>>

\* ------------------------------------------------------------ specification
Next ==
    \/ \E r \in Req, t \in ActiveTenants, op \in Ops : require_auth(r, t, op)
    \/ \E r \in Req : get_db_close(r)
    \/ \E r \in Req : order_new_action_line(r)
    \/ \E r \in Req : order_new_action_alloc(r)
    \/ \E r \in Req : order_new_action_commit(r)
    \/ \E r \in Req : order_new_action_items(r)
    \/ \E r \in Req : sale_new_action_empty(r)
    \/ \E r \in Req : sale_new_action_line(r)
    \/ \E r \in Req : sale_new_action_alloc(r)
    \/ \E r \in Req : sale_new_action_commit(r)
    \/ \E r \in Req : sale_new_action_items(r)
    \/ \E r \in Req : order_update_status_load(r)
    \/ \E r \in Req : convert_order_to_sale_items(r)
    \/ \E r \in Req : convert_order_to_sale_alloc(r)
    \/ \E r \in Req : order_update_status_commit(r)
    \/ \E r \in Req : tab_new_action_alloc(r)
    \/ \E r \in Req : tab_new_action_commit(r)
    \/ \E r \in Req : tab_add_item_load(r)
    \/ \E r \in Req : tab_add_item_product(r)
    \/ \E r \in Req : tab_add_item_commit(r)
    \/ \E r \in Req : tab_close_load(r)
    \/ \E r \in Req : tab_close_items(r)
    \/ \E r \in Req : tab_close_alloc(r)
    \/ \E r \in Req : tab_close_commit(r)

Spec == Init /\ [][Next]_vars

\* ------------------------------------------------------------ scheduling
\* The next step of request r: a statement of its handler or the close of its
\* session.
Step(r) ==
    \/ get_db_close(r)
    \/ order_new_action_line(r)
    \/ order_new_action_alloc(r)
    \/ order_new_action_commit(r)
    \/ order_new_action_items(r)
    \/ sale_new_action_empty(r)
    \/ sale_new_action_line(r)
    \/ sale_new_action_alloc(r)
    \/ sale_new_action_commit(r)
    \/ sale_new_action_items(r)
    \/ order_update_status_load(r)
    \/ convert_order_to_sale_items(r)
    \/ convert_order_to_sale_alloc(r)
    \/ order_update_status_commit(r)
    \/ tab_new_action_alloc(r)
    \/ tab_new_action_commit(r)
    \/ tab_add_item_load(r)
    \/ tab_add_item_product(r)
    \/ tab_add_item_commit(r)
    \/ tab_close_load(r)
    \/ tab_close_items(r)
    \/ tab_close_alloc(r)
    \/ tab_close_commit(r)

\* A thread of the threadpool that can run is run: a request that stays able
\* to take its next step takes it.
Fairness == \A r \in Req : WF_vars(Step(r))

SpecFair == Spec /\ Fairness

\* ------------------------------------------------------------ require_feature
\* require_feature(db, store_id, key): raises HTTPException(403) or returns.
require_feature(t, key) ==
    /\ gate' = [store_id |-> t, key |-> key,
                outcome |-> IF FeatureEnabled(t, key) THEN "proceed" ELSE "403"]
    /\ UNCHANGED <<db, lock, nreq, pc, req, features, now, access>>

\* Any store_features table the unique constraint admits.
InitGate ==
    /\ InitTables
    /\ features \in {rows \in SUBSET FlagRows : UniqueFlags(rows)}

NextGate == \E t \in Tenants, key \in FeatureKeys : require_feature(t, key)

SpecGate == InitGate /\ [][NextGate]_vars

\* ------------------------------------------------------------ store administration
\* Values of the segment field of POST /setup and POST /settings/segment.
SegmentInputs == {"deposito", "delivery", "bar", "Bar"}
\* Values of the plan field of POST /settings/plan and POST /imperio-admin/plan.
PlanInputs == {"basic", "elite", "gold"}
\* Values of users.role; admin_setup_action creates the admin.
RoleInputs == {"admin", "caixa"}

CoreKeys == {"core_products", "core_sales", "core_customers", "core_dashboard"}
SegmentKeys == {"segment_orders", "segment_tables"}
PremiumKeys == {"reports_export", "finance_module", "multi_user", "white_label",
                "theme_custom"}

\* DEFAULT_FEATURES, as 1 if enabled else 0.
DEFAULT_FEATURES ==
    [k \in CoreKeys \cup SegmentKeys \cup PremiumKeys |->
        IF k \in CoreKeys \/ k = "segment_orders" THEN 1 ELSE 0]

\* Mutant: the store gets the default flags, whatever its segment.
base_feats_default(segment) ==
    [k \in CoreKeys \cup SegmentKeys \cup (PremiumKeys \ {"theme_custom"}) |->
        DEFAULT_FEATURES[k]]

\* base_feats of admin_setup_action: it has no theme_custom entry.
base_feats(segment) ==
    [k \in CoreKeys \cup SegmentKeys \cup (PremiumKeys \ {"theme_custom"}) |->
        CASE k \in CoreKeys -> 1
          [] k = "segment_orders" -> IF segment \in {"deposito", "delivery"} THEN 1 ELSE 0
          [] k = "segment_tables" -> IF segment = "bar" THEN 1 ELSE 0
          [] OTHER -> 0]

\* for k, v in base_feats.items(): store.features.append(StoreFeature(key=k, enabled=v))
FeatureRowsOf(t, feats) ==
    {[store_id |-> t, key |-> k, enabled |-> feats[k]] : k \in DOMAIN feats}

\* No row of the stores table has this id yet.
NoStore == [exists |-> FALSE, segment |-> "", plan |-> "",
            subscription_status |-> "", paid_until |-> NoTime,
            next_order_seq |-> 1, next_sale_seq |-> 1, next_tab_seq |-> 1]

\* A store row written before the SaaS columns existed: ensure_schema gave it
\* the column defaults, and it has no store_features rows.
LegacyStore == [exists |-> TRUE, segment |-> "deposito", plan |-> "basic",
                subscription_status |-> "trial", paid_until |-> NoTime,
                next_order_seq |-> 1, next_sale_seq |-> 1, next_tab_seq |-> 1]

\* Store.ensure_trial(): if not self.paid_until: self.paid_until = utcnow() + 7 days
ensure_trial(store, clock) ==
    IF store.paid_until.kind = "none"
      THEN [store EXCEPT !.paid_until = TrialEnd(clock)]
      ELSE store

\* seed_store_defaults(db): every store gets its trial end and the rows of
\* DEFAULT_FEATURES it does not have yet.  Two concurrent seedings insert the
\* same rows; the unique constraint makes the second fail and roll back, which
\* leaves the tables as one seeding leaves them.
SeededStores(rows) ==
    [t \in Tenants |-> IF rows[t].exists THEN ensure_trial(rows[t], now) ELSE rows[t]]

SeededFeatures(rows, flags) ==
    flags \cup {g \in [store_id : Tenants, key : DOMAIN DEFAULT_FEATURES,
                       enabled : {0, 1}] :
                  /\ rows[g.store_id].exists
                  /\ g.enabled = DEFAULT_FEATURES[g.key]
                  /\ ~\E f \in flags : f.store_id = g.store_id /\ f.key = g.key}

\* POST /setup: the store does not exist yet (ids are given in order); it is
\* committed with its base_feats rows, then seed_store_defaults runs.
admin_setup_action(t, segment) ==
    /\ ~stores[t].exists
    /\ \A u \in Tenants : u < t => stores[u].exists
    /\ LET created == [stores EXCEPT ![t] = NewStore(segment, now)]
           rows == features \cup FeatureRowsOf(t, base_feats(segment))
       IN  /\ stores' = SeededStores(created)
           /\ features' = SeededFeatures(created, rows)
    /\ UNCHANGED <<products, orders, order_items, sales, sale_items, tabs,
                   tab_items, lock, nreq, pc, req, gate, now, access>>

\* POST /login of a user of store t: ensure_store_ready(db, store) runs
\* store.ensure_trial(), commits and calls seed_store_defaults(db).
login_action(t) ==
    /\ stores[t].exists
    /\ stores' = SeededStores(stores)
    /\ features' = SeededFeatures(stores, features)
    /\ UNCHANGED <<products, orders, order_items, sales, sale_items, tabs,
                   tab_items, lock, nreq, pc, req, gate, now, access>>

\* POST /settings/segment after require_auth.  A user who is not admin gets
\* 403; for an admin the next statement, is_master(request), names a variable
\* the function does not have: NameError, and nothing after it runs.
settings_segment(r) ==
    /\ pc[r] = "ss_role"
    /\ \E role \in RoleInputs, segment \in SegmentInputs :
         /\ req' = [req EXCEPT ![r].role = role, ![r].form = segment,
                               ![r].result = IF role # "admin" THEN "403" ELSE "500",
                               ![r].detail = IF role # "admin" THEN "" ELSE "NameError"]
    /\ pc' = [pc EXCEPT ![r] = "ret"]
    /\ UNCHANGED <<db, lock, nreq, features, gate, now, access>>

\* POST /settings/plan after require_auth: the same two statements.
settings_plan(r) ==
    /\ pc[r] = "sp_role"
    /\ \E role \in RoleInputs, plan \in PlanInputs :
         /\ req' = [req EXCEPT ![r].role = role, ![r].form = plan,
                               ![r].result = IF role # "admin" THEN "403" ELSE "500",
                               ![r].detail = IF role # "admin" THEN "" ELSE "NameError"]
    /\ pc' = [pc EXCEPT ![r] = "ret"]
    /\ UNCHANGED <<db, lock, nreq, features, gate, now, access>>

\* POST /imperio-admin/plan: no require_auth.  Without the master cookie 403;
\* an unknown store_id redirects; otherwise plan, subscription_status and
\* paid_until are set on the loaded store and ensure_default_features(db, store)
\* is called, a name routes.py neither defines nor imports: NameError before
\* the bundle is applied and before db.commit(), so get_db rolls the session
\* back and the row keeps its values.
master_set_plan(r, master, store_id, plan) ==
    /\ pc[r] = "idle"
    /\ \A q \in Req : q < r => pc[q] # "idle"
    /\ nreq < MaxRequests
    /\ nreq' = nreq + 1
    /\ pc' = [pc EXCEPT ![r] = "ret"]
    /\ req' = [req EXCEPT ![r] =
                 [Idle EXCEPT !.op = "master_set_plan", !.store_id = store_id,
                              !.role = IF master THEN "master" ELSE "",
                              !.form = plan,
                              !.result = IF ~master THEN "403"
                                         ELSE IF ~stores[store_id].exists THEN "err_store"
                                         ELSE "500",
                              !.detail = IF master /\ stores[store_id].exists
                                           THEN "NameError" ELSE ""]]
    /\ UNCHANGED <<db, lock, features, gate, now, access>>

\* More than the trial period passes.
tick ==
    /\ now = 0
    /\ now' = TrialDays * HoursPerDay + 1
    /\ UNCHANGED <<db, lock, nreq, pc, req, features, gate, access>>

\* A fresh database, or one that holds a store from before the SaaS columns.
InitAdmin ==
    /\ InitDocs
    /\ now = 0
    /\ features = {}
    /\ \/ stores = [t \in Tenants |-> NoStore]
       \/ stores = [t \in Tenants |-> IF t = 1 THEN LegacyStore ELSE NoStore]

\* One request at a time.
AdminReq == {1}

\* Setup, login, the clock and the requests that change plan or segment.
NextAdmin ==
    \/ \E t \in Tenants, segment \in SegmentInputs : admin_setup_action(t, segment)
    \/ \E t \in Tenants : login_action(t)
    \/ tick
    \/ \E r \in AdminReq, t \in ActiveTenants, op \in SettingsOps :
         require_auth(r, t, op)
    \/ \E r \in AdminReq, master \in BOOLEAN, t \in Tenants, plan \in PlanInputs :
         master_set_plan(r, master, t, plan)
    \/ \E r \in AdminReq : settings_segment(r)
    \/ \E r \in AdminReq : settings_plan(r)
    \/ \E r \in AdminReq : get_db_close(r)

SpecAdmin == InitAdmin /\ [][NextAdmin]_vars

\* Setup, login and the clock of the active tenant, and its gated requests.
NextGated ==
    \/ \E t \in ActiveTenants, segment \in SegmentInputs : admin_setup_action(t, segment)
    \/ \E t \in ActiveTenants : login_action(t)
    \/ tick
    \/ \E r \in AdminReq, t \in ActiveTenants, op \in Ops : require_auth(r, t, op)
    \/ \E r \in AdminReq : get_db_close(r)
    \/ \E r \in AdminReq : order_new_action_line(r)
    \/ \E r \in AdminReq : order_new_action_alloc(r)
    \/ \E r \in AdminReq : order_new_action_commit(r)
    \/ \E r \in AdminReq : order_new_action_items(r)
    \/ \E r \in AdminReq : sale_new_action_empty(r)
    \/ \E r \in AdminReq : sale_new_action_line(r)
    \/ \E r \in AdminReq : sale_new_action_alloc(r)
    \/ \E r \in AdminReq : sale_new_action_commit(r)
    \/ \E r \in AdminReq : sale_new_action_items(r)
    \/ \E r \in AdminReq : order_update_status_load(r)
    \/ \E r \in AdminReq : convert_order_to_sale_items(r)
    \/ \E r \in AdminReq : convert_order_to_sale_alloc(r)
    \/ \E r \in AdminReq : order_update_status_commit(r)
    \/ \E r \in AdminReq : tab_new_action_alloc(r)
    \/ \E r \in AdminReq : tab_new_action_commit(r)
    \/ \E r \in AdminReq : tab_add_item_load(r)
    \/ \E r \in AdminReq : tab_add_item_product(r)
    \/ \E r \in AdminReq : tab_add_item_commit(r)
    \/ \E r \in AdminReq : tab_close_load(r)
    \/ \E r \in AdminReq : tab_close_items(r)
    \/ \E r \in AdminReq : tab_close_alloc(r)
    \/ \E r \in AdminReq : tab_close_commit(r)

SpecGated == InitAdmin /\ [][NextGated]_vars

\* ------------------------------------------------------------ subscription check
\* Values of stores.subscription_status (String(30), unvalidated).
SubscriptionStatusInputs == {"trial", "active", "past_due", "suspended", "Trial", ""}
\* Utc offsets, in hours, a driver may return an aware paid_until with.
OffsetInputs == {-1, 0, 1}
\* Values of stores.paid_until: NULL, naive, or aware with an offset.
PaidUntilInputs ==
    {NoTime}
      \cup {[kind |-> "naive", wall |-> w, off |-> 0] : w \in 0..MaxHour}
      \cup {[kind |-> "aware", wall |-> w, off |-> o] : w \in 0..MaxHour, o \in OffsetInputs}

\* ok, msg = is_subscription_ok(s) on the row of store t.
is_subscription_ok_call(t) ==
    /\ stores[t].exists
    /\ access' = is_subscription_ok(stores[t], now)
    /\ UNCHANGED <<db, lock, nreq, pc, req, features, gate, now>>

\* Any subscription columns of store 1 at any clock reading.
InitSub ==
    /\ InitDocs
    /\ features = {}
    /\ now \in 0..MaxHour
    /\ \E status \in SubscriptionStatusInputs, paid \in PaidUntilInputs :
         stores = [t \in Tenants |->
                     IF t = 1
                       THEN [LegacyStore EXCEPT !.subscription_status = status,
                                                !.paid_until = paid]
                       ELSE NoStore]

NextSub == \E t \in Tenants : is_subscription_ok_call(t)

SpecSub == InitSub /\ [][NextSub]_vars

\* ------------------------------------------------------------ two tenants
\* The handlers of the tab lifecycle: tab_new_action allocates a tab number,
\* tab_close a sale number.
TabOps == {"tab_new_action", "tab_add_item", "tab_close"}

\* Users of both stores work on tabs at the same time.
NextTenants ==
    \/ \E r \in Req, t \in Tenants, op \in TabOps : require_auth(r, t, op)
    \/ \E r \in Req : get_db_close(r)
    \/ \E r \in Req : tab_new_action_alloc(r)
    \/ \E r \in Req : tab_new_action_commit(r)
    \/ \E r \in Req : tab_add_item_load(r)
    \/ \E r \in Req : tab_add_item_product(r)
    \/ \E r \in Req : tab_add_item_commit(r)
    \/ \E r \in Req : tab_close_load(r)
    \/ \E r \in Req : tab_close_items(r)
    \/ \E r \in Req : tab_close_alloc(r)
    \/ \E r \in Req : tab_close_commit(r)

SpecTenants == Init /\ [][NextTenants]_vars

\* ------------------------------------------------------------ properties
OrdersOf(t) == LET T(o) == o.store_id = t IN SelectSeq(orders, T)
SalesOf(t) == LET T(o) == o.store_id = t IN SelectSeq(sales, T)
TabsOf(t) == LET T(o) == o.store_id = t IN SelectSeq(tabs, T)

\* Documents docs of one tenant and one kind carry the numbers formatted from
\* 1, 2, .. in the order they were committed, and counter is the next one.
NumberedFromOne(docs, prefix, counter) ==
    /\ \A k \in 1..Len(docs) : docs[k].number = FormatNumber(prefix, k)
    /\ counter = Len(docs) + 1

\* C1: for one tenant and one kind, the k-th allocation returns the number
\* formatted from k (P-000001, P-000002, ..): the documents committed so far
\* carry 1..n without gap or repeat, the stored counter is n + 1, and a
\* request that has allocated and not yet committed holds the stored counter.
C1_SequentialNumbers ==
    /\ \A t \in Tenants :
         /\ NumberedFromOne(OrdersOf(t), "P", stores[t].next_order_seq)
         /\ NumberedFromOne(SalesOf(t), "V", stores[t].next_sale_seq)
         /\ NumberedFromOne(TabsOf(t), "C", stores[t].next_tab_seq)
    /\ \A r \in Req :
         /\ pc[r] = "on_commit1" => req[r].seq = stores[req[r].store_id].next_order_seq
         /\ (pc[r] = "sn_commit1" \/ (pc[r] \in {"ou_commit", "tc_commit"} /\ req[r].convert))
              => req[r].seq = stores[req[r].store_id].next_sale_seq
         /\ pc[r] = "tn_commit" => req[r].seq = stores[req[r].store_id].next_tab_seq
    /\ Len(orders) >= 1 => orders[1].number = <<"P", 0, 0, 0, 0, 0, 1>>

\* Three sales of one tenant were allocated one after another: V-000003.
C1_Witness ==
    /\ Len(SalesOf(1)) = 3
    /\ sales[3].number = <<"V", 0, 0, 0, 0, 0, 3>>
    /\ stores[1].next_sale_seq = 4

Distinct(docs) ==
    \A i, j \in 1..Len(docs) :
        (i # j /\ docs[i].store_id = docs[j].store_id) => docs[i].number # docs[j].number

\* C2: under every interleaving of the requests of one tenant that allocate a
\* number, no two committed documents of the same kind of that tenant carry
\* the same number.
C2_UniqueNumbers == Distinct(orders) /\ Distinct(sales) /\ Distinct(tabs)

\* A request waits in _alloc_number for the row lock another request of the
\* same tenant holds after allocating.
C2_Witness ==
    \E r1, r2 \in Req :
        /\ r1 # r2
        /\ pc[r1] \in {"on_commit1", "sn_commit1", "ou_commit", "tc_commit", "tn_commit"}
        /\ pc[r2] \in {"cv_alloc", "tc_alloc", "tn_alloc"}
        /\ req[r1].store_id = req[r2].store_id
        /\ lock[req[r1].store_id] = r1
        /\ Len(sales) >= 1

\* C3: when order_update_status sets an order to entregue that an earlier call
\* has already delivered and converted, the call returns the existing Sale:
\* its commit creates no Sale and no SaleItem, leaves converted_sale_id, the
\* sequence counters and every product's stock as they were.
C3_SecondDeliveryIdempotent ==
    [][\A r \in Req :
         (/\ pc[r] \in {"cv_items", "ou_commit"}
          /\ pc'[r] # pc[r]
          /\ req[r].status = "entregue"
          /\ req[r].doc.converted_sale_id # NULL)
         => /\ sales' = sales
            /\ sale_items' = sale_items
            /\ stores' = stores
            /\ products' = products
            /\ pc'[r] \in {"ou_commit", "ret"}
            /\ orders'[req[r].doc.id].converted_sale_id
                 = orders[req[r].doc.id].converted_sale_id]_vars

\* A second delivery of a converted order has returned and there is one Sale.
C3_Witness ==
    \E r \in Req :
        /\ pc[r] = "ret"
        /\ req[r].result = "already_converted"
        /\ Len(sales) = 1
        /\ sales[1].src = <<"order", 1>>
        /\ orders[1].converted_sale_id = 1

\* C4: under every interleaving of concurrent order_update_status(entregue)
\* requests on one order, there are never two Sales copied from the same order.
C4_OneSalePerOrder ==
    \A i, j \in 1..Len(sales) :
        (i # j /\ sales[i].src[1] = "order") => sales[i].src # sales[j].src

LinePcs == {"on_line", "sn_line"}

\* C5: when a line of an order_new_action or sale_new_action submission fails
\* the stock check, no step of the request, from its first line to the close
\* of its session, changes a committed row: no product's stock (the lines that
\* passed included), no Order, Sale or line item, and no sequence counter.
C5_FailedLineChangesNothing ==
    [][\A r \in Req :
         (\/ /\ pc[r] \in LinePcs
             /\ pc'[r] \in LinePcs \cup {"ret"}
             /\ req'[r] # req[r]
             /\ pc'[r] = "ret" => req'[r].result = "insufficient"
          \/ /\ pc[r] = "ret"
             /\ req[r].result = "insufficient"
             /\ pc'[r] = "idle")
         => UNCHANGED db]_vars

\* A submission whose first line passed and whose second failed has returned;
\* nothing is committed.
C5_Witness ==
    \E r \in Req :
        /\ pc[r] = "ret"
        /\ req[r].result = "insufficient"
        /\ Len(req[r].items) >= 1
        /\ products[1].stock = InitStock
        /\ orders = <<>> /\ sales = <<>>
        /\ stores[1].next_order_seq = 1 /\ stores[1].next_sale_seq = 1

\* C6: in every reachable state every product's committed stock is >= 0.
C6_StockNeverNegative == \A p \in ProductIds : products[p].stock >= 0

\* Quantity reserved from the catalogue by committed order, direct-sale and
\* tab items.
DirectSaleItems ==
    LET T(it) == sales[it.sale_id].src[1] = "direct" IN SelectSeq(sale_items, T)
ReservedQty == SumQty(order_items) + SumQty(DirectSaleItems) + SumQty(tab_items)

\* Two requests that read the same stock both reserved from it: more is
\* reserved than was in stock, and the committed stock is 0.
C6_Witness == products[1].stock = 0 /\ ReservedQty > InitStock

\* C7: there is no committed state in which an Order or a direct Sale is
\* visible with its total while its line items are not.
C7_DocumentsHaveTheirItems ==
    /\ \A oid \in 1..Len(orders) :
         SumLineTotal(OrderItemsOf(oid)) = orders[oid].total
    /\ \A sid \in 1..Len(sales) :
         sales[sid].src[1] = "direct"
            => SumLineTotal(SaleItemsOf(sid)) = sales[sid].total

\* C8: every Sale produced by converting an Order has total equal to the sum
\* of line_total over its SaleItems and to the total of the source Order.
C8_ConvertedSaleTotal ==
    \A sid \in 1..Len(sales) :
        sales[sid].src[1] = "order"
           => /\ sales[sid].total = SumLineTotal(SaleItemsOf(sid))
              /\ sales[sid].total = orders[sales[sid].src[2]].total

\* The source row of the conversion request r is running.
SourceRow(r) ==
    IF req[r].op = "tab_close" THEN tabs[req[r].doc.id] ELSE orders[req[r].doc.id]

\* The source's items as committed now.
SourceItems(r) ==
    IF req[r].op = "tab_close" THEN TabItemsOf(req[r].doc.id)
                               ELSE OrderItemsOf(req[r].doc.id)

\* C9: a first conversion of an Order or of a Tab reads all the items of its
\* source and, in one commit, creates one Sale of the same tenant with status
\* concluida, the total of the source as read, and one SaleItem per item read,
\* with the same product_name, qty, price and line_total, in the same order;
\* the same commit sets the source's converted_sale_id to the new Sale and
\* carries the status change of the request (a status equal to the one loaded
\* is no change and writes no column).
C9_ConversionCopiesSource ==
    [][\A r \in Req :
         /\ (pc[r] \in {"cv_items", "tc_items"} /\ pc'[r] \in {"cv_alloc", "tc_alloc"})
              => req'[r].src = Snapshots(SourceItems(r))
         /\ (pc[r] \in {"ou_commit", "tc_commit"} /\ pc'[r] = "ret" /\ req[r].convert)
              => LET sid == Len(sales) + 1
                     id == req[r].doc.id
                     after == IF req[r].op = "tab_close" THEN tabs'[id] ELSE orders'[id]
                 IN
                 /\ Len(sales') = sid
                 /\ SubSeq(sales', 1, Len(sales)) = sales
                 /\ sales'[sid].store_id = SourceRow(r).store_id
                 /\ sales'[sid].status = "concluida"
                 /\ sales'[sid].total = req[r].doc.total
                 /\ sales'[sid].customer_name = req[r].doc.customer_name
                 /\ req[r].op = "order_update_status"
                      => sales'[sid].total = orders[id].total
                 /\ Len(sale_items') = Len(sale_items) + Len(req[r].src)
                 /\ SubSeq(sale_items', 1, Len(sale_items)) = sale_items
                 /\ \A i \in 1..Len(req[r].src) :
                      sale_items'[Len(sale_items) + i]
                         = [sale_id |-> sid] @@ req[r].src[i]
                 /\ after.converted_sale_id = sid
                 /\ req[r].op = "tab_close" => after.status = "fechada"
                 /\ (req[r].op = "order_update_status" /\ req[r].doc.status # "entregue")
                      => after.status = "entregue"]_vars

\* A tab with an item was closed: its Sale carries the item and the total.
C9_Witness ==
    \E sid \in 1..Len(sales) :
        /\ sales[sid].src = <<"tab", 1>>
        /\ tabs[1].converted_sale_id = sid
        /\ tabs[1].status = "fechada"
        /\ Len(SaleItemsOf(sid)) = 1
        /\ Snapshots(SaleItemsOf(sid)) = Snapshots(TabItemsOf(1))
        /\ sales[sid].total = tabs[1].total
        /\ sales[sid].total > 0

StatusAndClosePcs == {"ou_load", "cv_items", "cv_alloc", "ou_commit",
                      "tc_load", "tc_items", "tc_alloc", "tc_commit"}
ReservingCommitPcs == {"on_commit1", "sn_commit1", "ta_commit"}

\* C10: no step of order_update_status (entregue included) or of tab_close
\* changes the stock of a product; a step that changes stock is the commit of
\* order_new_action, sale_new_action or tab_add_item.
C10_DeliveryLeavesStock ==
    [][/\ \A r \in Req :
            (pc[r] \in StatusAndClosePcs /\ pc'[r] # pc[r]) => products' = products
       /\ products' # products
            => \E r \in Req : pc[r] \in ReservingCommitPcs /\ pc'[r] # pc[r]]_vars

\* An order that reserved stock was delivered and converted: the stock is
\* what the order left.
C10_Witness ==
    \E r \in Req :
        /\ pc[r] = "ret"
        /\ req[r].result = "converted"
        /\ Len(orders) = 1
        /\ orders[1].status = "entregue"
        /\ Len(OrderItemsOf(1)) >= 1
        /\ products[1].stock = InitStock - SumQty(OrderItemsOf(1))

\* C11: in every reachable state every Order whose status is entregue has
\* converted_sale_id set to an existing Sale of the same tenant.
C11_DeliveredHasSale ==
    \A oid \in 1..Len(orders) :
        orders[oid].status = "entregue"
           => /\ orders[oid].converted_sale_id \in 1..Len(sales)
              /\ sales[orders[oid].converted_sale_id].store_id = orders[oid].store_id

TerminalStatuses == {"entregue", "cancelado"}

\* C12: entregue and cancelado are terminal: no step changes the status of an
\* Order that is entregue or cancelado, and a cancelled Order is never
\* converted.
C12_TerminalStatus ==
    [][\A oid \in 1..Len(orders) :
         orders[oid].status \in TerminalStatuses
            => /\ orders'[oid].status = orders[oid].status
               /\ orders[oid].status = "cancelado"
                    => orders'[oid].converted_sale_id = orders[oid].converted_sale_id]_vars

RecognizedStatuses == {"novo", "preparo", "separando", "saiu", "entregue", "cancelado"}

\* C13: in every reachable state the status of every Order is one of novo,
\* preparo, separando, saiu, entregue, cancelado.
C13_StatusRecognized ==
    \A oid \in 1..Len(orders) : orders[oid].status \in RecognizedStatuses

\* C14: every Order order_new_action commits has status novo and no
\* converted_sale_id when it is created.
C14_CreatedNovo ==
    [][Len(orders') > Len(orders)
         => /\ orders'[Len(orders')].status = "novo"
            /\ orders'[Len(orders')].converted_sale_id = NULL]_vars

\* C15: order_update_status with a status other than entregue changes only
\* the status column of its order: its load changes nothing, and its commit
\* creates no Sale and no SaleItem, leaves converted_sale_id, every other
\* column and row, the three sequence counters and the stock unchanged, and
\* stores the requested status when it differs from the one loaded.
C15_OtherStatusOnlyStatus ==
    [][\A r \in Req :
         /\ (pc[r] = "ou_load" /\ pc'[r] # "ou_load") => UNCHANGED db
         /\ (pc[r] = "ou_commit" /\ pc'[r] = "ret" /\ req[r].status # "entregue")
              => LET oid == req[r].doc.id IN
                 /\ UNCHANGED <<stores, products, order_items, sales, sale_items,
                                tabs, tab_items>>
                 /\ orders' = [orders EXCEPT ![oid].status = orders'[oid].status]
                 /\ req[r].status # req[r].doc.status
                      => orders'[oid].status = req[r].status]_vars

\* An order that was delivered and converted is then cancelled: the status
\* changed, the Sale and converted_sale_id stayed.
C15_Witness ==
    \E r \in Req :
        /\ pc[r] = "ret"
        /\ req[r].result = "status"
        /\ Len(orders) = 1
        /\ orders[1].status = "cancelado"
        /\ orders[1].converted_sale_id = 1
        /\ Len(sales) = 1

\* The step of r accepts one line of its form.
AcceptsLine(r) == pc[r] \in LinePcs /\ pc'[r] = pc[r] /\ req'[r] # req[r]

AddRejections == {"tabs", "err_produto", "err_estoque"}

\* C17: tab_add_item goes on only with a tab of the caller's tenant whose
\* status is aberta, a product of the tenant and stock >= qty; until its
\* commit it changes nothing, and a tab_add_item that was rejected (tab not
\* open or not found, unknown product, insufficient stock) ends without having
\* changed any row: no BarTabItem, no stock, no tab total.
C17_RejectedAddChangesNothing ==
    [][\A r \in Req :
         /\ (pc[r] \in {"ta_load", "ta_product"} /\ pc'[r] # pc[r]) => UNCHANGED db
         /\ (pc[r] = "ta_load" /\ pc'[r] = "ta_product")
              => LET tid == req'[r].doc.id IN
                 /\ tid \in 1..Len(tabs)
                 /\ tabs[tid].store_id = req[r].store_id
                 /\ tabs[tid].status = "aberta"
         /\ (pc[r] = "ta_product" /\ pc'[r] = "ta_commit")
              => \E pid \in ProductIds :
                    /\ products[pid].store_id = req[r].store_id
                    /\ req'[r].items[1].product_name = products[pid].name
                    /\ products[pid].stock >= req'[r].items[1].qty
         /\ (pc[r] = "ret" /\ pc'[r] = "idle" /\ req[r].op = "tab_add_item"
               /\ req[r].result \in AddRejections)
              => UNCHANGED db]_vars

\* An add on a tab that was closed has been rejected: the tab has no item and
\* total 0, the stock is whole.
C17_Witness ==
    \E r \in Req :
        /\ pc[r] = "ret"
        /\ req[r].op = "tab_add_item"
        /\ req[r].result = "tabs"
        /\ Len(tabs) = 1
        /\ tabs[1].status = "fechada"
        /\ tabs[1].total = 0
        /\ tab_items = <<>>
        /\ products[1].stock = InitStock

\* C18: a tab that is fechada stays fechada; tab_close goes on only with a
\* tab it loads as aberta, and a tab_close that loads a tab that is not aberta
\* changes nothing (no Sale, no number, closed_at as it was); every fechada
\* tab has converted_sale_id set to an existing Sale of the same tenant.
C18_ClosedStaysClosed ==
    [][/\ \A tid \in 1..Len(tabs) :
            tabs[tid].status = "fechada" => tabs'[tid].status = "fechada"
       /\ \A tid \in 1..Len(tabs') :
            tabs'[tid].status = "fechada"
               => /\ tabs'[tid].converted_sale_id \in 1..Len(sales')
                  /\ sales'[tabs'[tid].converted_sale_id].store_id = tabs'[tid].store_id
       /\ \A r \in Req :
            /\ (pc[r] = "tc_load" /\ pc'[r] # pc[r]) => UNCHANGED db
            /\ (pc[r] = "tc_load" /\ pc'[r] \in {"tc_items", "tc_commit"})
                 => tabs[req'[r].doc.id].status = "aberta"
            /\ (pc[r] = "ret" /\ pc'[r] = "idle" /\ req[r].op = "tab_close"
                  /\ req[r].result = "tabs")
                 => UNCHANGED db]_vars

\* A tab_close on a tab that is already fechada has returned: still one Sale,
\* the sale counter at 2, closed_at that of the first close.
C18_Witness ==
    \E r \in Req :
        /\ pc[r] = "ret"
        /\ req[r].op = "tab_close"
        /\ req[r].result = "tabs"
        /\ Len(tabs) = 1
        /\ tabs[1].status = "fechada"
        /\ tabs[1].converted_sale_id = 1
        /\ tabs[1].closed_at = 2
        /\ Len(sales) = 1
        /\ stores[1].next_sale_seq = 2

\* C19: under every interleaving of concurrent tab_close requests on one open
\* tab, exactly one Sale is created for the tab and one sale number consumed:
\* no two Sales come from the same tab.
C19_OneSalePerTab ==
    \A i, j \in 1..Len(sales) :
        (sales[i].src[1] = "tab" /\ sales[j].src = sales[i].src) => i = j

\* C20: require_feature(tenant, key) lets the operation proceed if and only
\* if a flag row of exactly that (tenant, key) has enabled = 1; a missing row,
\* a row with another value of enabled and a row of another tenant all end in
\* the 403 failure.
C20_GateFailsClosed ==
    [][gate' # gate
         => /\ gate'.outcome \in {"proceed", "403"}
            /\ gate'.outcome = "proceed"
                 <=> [store_id |-> gate'.store_id, key |-> gate'.key, enabled |-> 1]
                        \in features]_vars

\* Tenant 1 was refused segment_orders: it has no row for it, while tenant 2
\* has the flag enabled.
C20_Witness ==
    /\ gate = [store_id |-> 1, key |-> "segment_orders", outcome |-> "403"]
    /\ FlagRow(1, "segment_orders") = {}
    /\ [store_id |-> 2, key |-> "segment_orders", enabled |-> 1] \in features

C22_PlanChangeApplies ==
    [][\A r \in Req :
         LET t == req'[r].store_id
             p == IF req'[r].form \in {"basic", "pro", "elite"}
                    THEN req'[r].form ELSE "basic"
             bundle == [k \in PremiumKeys |->
                          CASE p = "elite" -> 1
                            [] p = "pro" -> IF k = "white_label" THEN 0 ELSE 1
                            [] OTHER -> 0]
             by_admin == /\ pc[r] = "sp_role" /\ pc'[r] = "ret"
                         /\ req'[r].role = "admin"
             by_master == /\ pc[r] = "idle" /\ pc'[r] = "ret"
                          /\ req'[r].op = "master_set_plan"
                          /\ req'[r].role = "master"
                          /\ stores[t].exists
         IN  (by_admin \/ by_master)
               => /\ req'[r].result \notin {"500", "403", "402"}
                  /\ stores'[t].plan = p
                  /\ \A k \in PremiumKeys :
                       [store_id |-> t, key |-> k, enabled |-> bundle[k]] \in features'
                  /\ \A f \in features :
                       (f.store_id # t \/ f.key \notin PremiumKeys) => f \in features'
                  /\ \A f \in features' :
                       (f.store_id # t \/ f.key \notin PremiumKeys) => f \in features]_vars

\* C23: a segment change by the store's admin through settings_segment
\* completes and leaves the store with the segment asked for (deposito when
\* the value is not deposito, delivery or bar), segment_orders enabled iff
\* that segment is deposito or delivery, segment_tables enabled iff it is bar,
\* and every other flag row as it was.
C23_SegmentChangeApplies ==
    [][\A r \in Req :
         LET t == req'[r].store_id
             seg == IF req'[r].form \in {"deposito", "delivery", "bar"}
                      THEN req'[r].form ELSE "deposito"
             on(k) == [store_id |-> t, key |-> k, enabled |-> 1] \in features'
         IN  (pc[r] = "ss_role" /\ pc'[r] = "ret" /\ req'[r].role = "admin")
               => /\ req'[r].result \notin {"500", "403", "402"}
                  /\ stores'[t].segment = seg
                  /\ on("segment_orders") <=> seg \in {"deposito", "delivery"}
                  /\ on("segment_tables") <=> seg = "bar"
                  /\ \A f \in features :
                       (f.store_id # t \/ f.key \notin SegmentKeys) => f \in features'
                  /\ \A f \in features' :
                       (f.store_id # t \/ f.key \notin SegmentKeys) => f \in features]_vars

C25_SubscriptionDecision ==
    \A t \in Tenants :
        LET s == stores[t]
            instant == IF s.paid_until.kind = "naive"
                         THEN s.paid_until.wall
                         ELSE s.paid_until.wall - s.paid_until.off
        IN  (s.exists /\ access.called)
              => /\ ~access.raised
                 /\ access.ok <=> /\ s.subscription_status \in {"trial", "active"}
                                  /\ s.paid_until.kind = "none" \/ instant >= now
                 /\ access.ok <=> access.msg = ""

\* A trial whose paid_until, read at utc+1, is exactly the present instant
\* was granted.
C25_Witness ==
    /\ stores[1].subscription_status = "trial"
    /\ stores[1].paid_until = [kind |-> "aware", wall |-> 2, off |-> 1]
    /\ now = 1
    /\ access = Granted

\* C26: a request of a tenant whose subscription check fails (a trial or
\* subscription whose paid_until is earlier than now, or a status other than
\* trial and active) is answered with 402 and the reason of the failure
\* (the trial-expired reason for an expired trial) without its handler being
\* started, whether or not the operation's flag is enabled, and no store,
\* product, document or flag row changes, neither then nor when it returns.
C26_SubscriptionBlocksFirst ==
    [][\A r \in Req :
         LET t == req'[r].store_id
             s == stores[t]
             instant == IF s.paid_until.kind = "naive"
                          THEN s.paid_until.wall
                          ELSE s.paid_until.wall - s.paid_until.off
             past == s.paid_until.kind # "none" /\ instant < now
             fails == s.subscription_status \notin {"trial", "active"} \/ past
             arrives == pc[r] = "idle" /\ pc'[r] # "idle" /\ req'[r].op \in Ops
         IN  /\ (arrives /\ fails)
                  => /\ pc'[r] = "ret"
                     /\ req'[r].result = "402"
                     /\ (s.subscription_status = "trial" /\ past)
                          => req'[r].detail = "trial_ended"
                     /\ UNCHANGED <<db, features>>
             /\ (pc[r] = "ret" /\ req[r].result = "402" /\ pc'[r] # pc[r])
                  => /\ pc'[r] = "idle"
                     /\ UNCHANGED <<db, features>>]_vars

\* A bar opened a tab during its trial; after the trial ended its request for
\* a new order, an operation its flags do not include, was answered with 402
\* and the trial-expired reason.
C26_Witness ==
    /\ Len(tabs) = 1
    /\ stores[1].subscription_status = "trial"
    /\ stores[1].paid_until = TrialEnd(0)
    /\ now > TrialDays * HoursPerDay
    /\ pc[1] = "ret"
    /\ req[1].op = "order_new_action"
    /\ req[1].result = "402"
    /\ req[1].detail = "trial_ended"
    /\ [store_id |-> 1, key |-> "segment_orders", enabled |-> 0] \in features

C28_WaitersProceed ==
    /\ [][\A r \in Req : \A t \in Tenants :
            lock[t] = r => IF pc'[r] = pc[r] THEN lock'[t] = r ELSE lock'[t] # r]_vars
    /\ []((\E r \in Req : pc[r] # "idle") => \E r \in Req : ENABLED Step(r))
    /\ \A r \in Req :
         (pc[r] # "idle" /\ ~ENABLED Step(r))
           ~> (pc[r] # "idle" /\ lock[req[r].store_id] = r)
    /\ \A r \in Req : (pc[r] # "idle") ~> (pc[r] = "idle")

\* Request 2 is in _alloc_number for a tab of the store whose row lock
\* request 1 holds with an uncommitted tab number: it can take no step.
C28_Witness ==
    /\ pc[1] = "tn_commit"
    /\ lock[1] = 1
    /\ pc[2] = "tn_alloc"
    /\ req[2].store_id = 1
    /\ ~ENABLED Step(2)

\* The integer a document number shows after its prefix.
RECURSIVE DigitsValue(_)
DigitsValue(ds) ==
    IF ds = <<>> THEN 0 ELSE 10 * DigitsValue(SubSeq(ds, 1, Len(ds) - 1)) + ds[Len(ds)]

NumberValue(number) == DigitsValue(Tail(number))

\* C29: within one tenant and one kind, numbers follow commit order: of two
\* committed documents the one committed first has the strictly smaller
\* number, also when their requests ran at the same time.
C29_NumbersFollowCommitOrder ==
    \A t \in Tenants :
        LET increasing(docs) ==
                \A i, j \in 1..Len(docs) :
                    i < j => NumberValue(docs[i].number) < NumberValue(docs[j].number)
        IN  /\ increasing(OrdersOf(t))
            /\ increasing(SalesOf(t))
            /\ increasing(TabsOf(t))

\* Two order submissions of one store ran at the same time; both orders are
\* committed, the one committed first numbered 1 and the other 2, and both
\* requests still have their items to commit.
C29_Witness ==
    /\ pc[1] = "on_commit2"
    /\ pc[2] = "on_commit2"
    /\ req[1].store_id = req[2].store_id
    /\ Len(orders) = 2
    /\ NumberValue(orders[1].number) = 1
    /\ NumberValue(orders[2].number) = 2

\* C30: for each tenant, next_order_seq - 1 is the number of its committed
\* orders, next_tab_seq - 1 of its tabs and next_sale_seq - 1 of its sales
\* (direct and converted); a counter changes only by one step of one kind,
\* in the commit that adds exactly one document of that kind carrying the
\* number the counter held, the other counters and kinds staying as they
\* were; and neither a request that ends in a failure nor the rollback that
\* closes a session changes a counter.
C30_CountersMatchDocuments ==
    /\ [](\A t \in Tenants :
            /\ stores[t].next_order_seq - 1 = Len(OrdersOf(t))
            /\ stores[t].next_sale_seq - 1 = Len(SalesOf(t))
            /\ stores[t].next_tab_seq - 1 = Len(TabsOf(t)))
    /\ [][UNCHANGED <<stores, orders, sales, tabs>> \/ \A t \in Tenants :
            LET Mine(o) == o.store_id = t
                dO == Len(SelectSeq(orders', Mine)) - Len(SelectSeq(orders, Mine))
                dS == Len(SelectSeq(sales', Mine)) - Len(SelectSeq(sales, Mine))
                dT == Len(SelectSeq(tabs', Mine)) - Len(SelectSeq(tabs, Mine))
                cO == stores'[t].next_order_seq - stores[t].next_order_seq
                cS == stores'[t].next_sale_seq - stores[t].next_sale_seq
                cT == stores'[t].next_tab_seq - stores[t].next_tab_seq
            IN  /\ <<cO, cS, cT>> \in {<<0, 0, 0>>, <<1, 0, 0>>, <<0, 1, 0>>, <<0, 0, 1>>}
                /\ <<dO, dS, dT>> = <<cO, cS, cT>>
                /\ cO = 1 => NumberValue(orders'[Len(orders')].number)
                               = stores[t].next_order_seq
                /\ cS = 1 => NumberValue(sales'[Len(sales')].number)
                               = stores[t].next_sale_seq
                /\ cT = 1 => NumberValue(tabs'[Len(tabs')].number)
                               = stores[t].next_tab_seq]_vars
    /\ [][\A r \in Req :
            LET failed == {"insufficient", "redirect", "not_found", "tabs",
                           "err_produto", "err_estoque", "402", "403"}
                fails == pc[r] # "ret" /\ pc'[r] = "ret" /\ req'[r].result \in failed
                closes == pc[r] = "ret" /\ pc'[r] = "idle"
            IN  (fails \/ closes) => stores' = stores]_vars

\* One order, delivered and converted, and one direct sale: the order counter
\* stands at 2, the sale counter at 3 and the tab counter at 1.
C30_Witness ==
    /\ Len(OrdersOf(1)) = 1
    /\ Len(SalesOf(1)) = 2
    /\ \E i, j \in 1..Len(sales) : sales[i].src[1] = "order" /\ sales[j].src[1] = "direct"
    /\ stores[1].next_order_seq = 2
    /\ stores[1].next_sale_seq = 3
    /\ stores[1].next_tab_seq = 1

\* ------------------------------------------------------------ tenant isolation
\* Users of both stores use every gated handler, one request at a time.
NextIsolation ==
    \/ \E r \in AdminReq, t \in Tenants, op \in Ops : require_auth(r, t, op)
    \/ \E r \in AdminReq : get_db_close(r)
    \/ \E r \in AdminReq : order_new_action_line(r)
    \/ \E r \in AdminReq : order_new_action_alloc(r)
    \/ \E r \in AdminReq : order_new_action_commit(r)
    \/ \E r \in AdminReq : order_new_action_items(r)
    \/ \E r \in AdminReq : sale_new_action_empty(r)
    \/ \E r \in AdminReq : sale_new_action_line(r)
    \/ \E r \in AdminReq : sale_new_action_alloc(r)
    \/ \E r \in AdminReq : sale_new_action_commit(r)
    \/ \E r \in AdminReq : sale_new_action_items(r)
    \/ \E r \in AdminReq : order_update_status_load(r)
    \/ \E r \in AdminReq : convert_order_to_sale_items(r)
    \/ \E r \in AdminReq : convert_order_to_sale_alloc(r)
    \/ \E r \in AdminReq : order_update_status_commit(r)
    \/ \E r \in AdminReq : tab_new_action_alloc(r)
    \/ \E r \in AdminReq : tab_new_action_commit(r)
    \/ \E r \in AdminReq : tab_add_item_load(r)
    \/ \E r \in AdminReq : tab_add_item_product(r)
    \/ \E r \in AdminReq : tab_add_item_commit(r)
    \/ \E r \in AdminReq : tab_close_load(r)
    \/ \E r \in AdminReq : tab_close_items(r)
    \/ \E r \in AdminReq : tab_close_alloc(r)
    \/ \E r \in AdminReq : tab_close_commit(r)

SpecIsolation == Init /\ [][NextIsolation]_vars

\* The tenant on whose behalf request r takes the step.
ActingTenant(r) == IF pc[r] = "idle" THEN req'[r].store_id ELSE req[r].store_id

\* C31: a request authenticated for tenant A never changes a product, order,
\* sale, tab, line item or sequence counter of another tenant B: every row of
\* B stays as it is and every row and line item a step adds belongs to A.  An
\* order or tab the request has loaded is A's own (an id of B loads nothing),
\* a product it has reserved is A's own, and a Sale made by conversion has
\* the tenant of the order or tab it was made from.
C31_TenantIsolation ==
    /\ [](/\ \A r \in Req :
               /\ (req[r].op = "order_update_status" /\ req[r].doc.id # NULL)
                      => orders[req[r].doc.id].store_id = req[r].store_id
               /\ (req[r].op \in {"tab_add_item", "tab_close"} /\ req[r].doc.id # NULL)
                      => tabs[req[r].doc.id].store_id = req[r].store_id
               /\ \A p \in DOMAIN req[r].pstock : products[p].store_id = req[r].store_id
          /\ \A i \in 1..Len(sales) :
               /\ sales[i].src[1] = "order"
                      => orders[sales[i].src[2]].store_id = sales[i].store_id
               /\ sales[i].src[1] = "tab"
                      => tabs[sales[i].src[2]].store_id = sales[i].store_id)
    /\ [][\A r \in Req : (pc'[r] # pc[r] \/ req'[r] # req[r]) =>
            LET A == ActingTenant(r) IN
            /\ \A B \in Tenants \ {A} :
                 /\ stores'[B] = stores[B]
                 /\ \A p \in ProductIds :
                      products[p].store_id = B => products'[p] = products[p]
                 /\ \A i \in 1..Len(orders) :
                      orders[i].store_id = B => orders'[i] = orders[i]
                 /\ \A i \in 1..Len(sales) :
                      sales[i].store_id = B => sales'[i] = sales[i]
                 /\ \A i \in 1..Len(tabs) :
                      tabs[i].store_id = B => tabs'[i] = tabs[i]
            /\ \A i \in 1..Len(order_items) : order_items'[i] = order_items[i]
            /\ \A i \in 1..Len(sale_items) : sale_items'[i] = sale_items[i]
            /\ \A i \in 1..Len(tab_items) : tab_items'[i] = tab_items[i]
            /\ \A i \in (Len(orders) + 1)..Len(orders') : orders'[i].store_id = A
            /\ \A i \in (Len(sales) + 1)..Len(sales') : sales'[i].store_id = A
            /\ \A i \in (Len(tabs) + 1)..Len(tabs') : tabs'[i].store_id = A
            /\ \A i \in (Len(order_items) + 1)..Len(order_items') :
                 orders'[order_items'[i].order_id].store_id = A
            /\ \A i \in (Len(sale_items) + 1)..Len(sale_items') :
                 sales'[sale_items'[i].sale_id].store_id = A
            /\ \A i \in (Len(tab_items) + 1)..Len(tab_items') :
                 tabs'[tab_items'[i].tab_id].store_id = A]_vars

\* Store 2 has an order with its item; store 1 then created an order of its
\* own and delivered it, which made a Sale of store 1.
C31_Witness ==
    /\ Len(orders) = 2
    /\ orders[1].store_id = 2
    /\ orders[1].status = "novo"
    /\ OrderItemsOf(1) # <<>>
    /\ orders[2].store_id = 1
    /\ \E i \in 1..Len(sales) : sales[i].src = <<"order", 2>> /\ sales[i].store_id = 1
    /\ products[2].stock = InitStock - 1

\* ------------------------------------------------------------ a store row removed
\* The handlers that allocate a number for a document they create.
CreateOps == {"order_new_action", "sale_new_action", "tab_new_action"}

\* DELETE of the row of store t with the rows that reference it.  No handler
\* deletes a store: the statement comes from outside the application, and it
\* waits for the row lock a request holds.  The foreign keys to stores.id
\* admit it once the store's products and feature flags go with it and no
\* order, sale or tab of the store is left.
store_deleted(t) ==
    /\ stores[t].exists
    /\ lock[t] = 0
    /\ \A i \in 1..Len(orders) : orders[i].store_id # t
    /\ \A i \in 1..Len(sales) : sales[i].store_id # t
    /\ \A i \in 1..Len(tabs) : tabs[i].store_id # t
    /\ stores' = [stores EXCEPT ![t] = NoStore]
    /\ products' = [p \in ProductIds |->
                      IF products[p].store_id = t
                        THEN [products[p] EXCEPT !.store_id = NULL]
                        ELSE products[p]]
    /\ features' = {f \in features : f.store_id # t}
    /\ UNCHANGED <<orders, order_items, sales, sale_items, tabs, tab_items,
                   lock, nreq, pc, req, gate, now, access>>

\* Requests that create documents while the row of their store is removed.
NextDeleted ==
    \/ \E t \in ActiveTenants : store_deleted(t)
    \/ \E r \in Req, t \in ActiveTenants, op \in CreateOps : require_auth(r, t, op)
    \/ \E r \in Req : get_db_close(r)
    \/ \E r \in Req : order_new_action_line(r)
    \/ \E r \in Req : order_new_action_alloc(r)
    \/ \E r \in Req : order_new_action_commit(r)
    \/ \E r \in Req : order_new_action_items(r)
    \/ \E r \in Req : sale_new_action_empty(r)
    \/ \E r \in Req : sale_new_action_line(r)
    \/ \E r \in Req : sale_new_action_alloc(r)
    \/ \E r \in Req : sale_new_action_commit(r)
    \/ \E r \in Req : sale_new_action_items(r)
    \/ \E r \in Req : tab_new_action_alloc(r)
    \/ \E r \in Req : tab_new_action_commit(r)

SpecDeleted == Init /\ [][NextDeleted]_vars

\* The positions at which a handler calls _alloc_number, and the positions
\* it goes on to when the call returned a number.
AllocPcs == {"on_line", "sn_line", "tn_alloc", "cv_alloc", "tc_alloc"}
AllocatedPcs == {"on_commit1", "sn_commit1", "tn_commit", "ou_commit", "tc_commit"}

\* C32: _alloc_number for a store whose row does not exist fails with HTTP
\* 400: no handler gets a number from a missing row, the call is possible and
\* ends the request with 400, and 400 comes from nowhere else.  The request
\* then commits nothing: the failing call and the close of its session leave
\* every table as it was (no document, no line item, no stock decrement the
\* request made before the call, no counter change) and the lock table too.
C32_InvalidTenantCommitsNothing ==
    /\ [](\A r \in Req :
            (req[r].store_id # NULL /\ ~stores[req[r].store_id].exists) =>
               /\ pc[r] = "on_line" => ENABLED order_new_action_alloc(r)
               /\ pc[r] = "sn_line" => ENABLED sale_new_action_alloc(r)
               /\ pc[r] = "tn_alloc" => ENABLED tab_new_action_alloc(r))
    /\ [][\A r \in Req :
            LET missing == req[r].store_id # NULL /\ ~stores[req[r].store_id].exists IN
            /\ (pc[r] \in AllocPcs /\ pc'[r] \in AllocatedPcs) => ~missing
            /\ (pc[r] \in AllocPcs /\ missing /\ pc'[r] = "ret") =>
                  \/ req'[r].result = "400"
                  \/ /\ pc[r] = "sn_line"
                     /\ req[r].items = <<>>
                     /\ req'[r].result = "redirect"
            /\ (pc[r] # "ret" /\ pc'[r] = "ret" /\ req'[r].result = "400") =>
                  /\ pc[r] \in AllocPcs
                  /\ missing
                  /\ UNCHANGED <<db, lock>>
            /\ (pc[r] = "ret" /\ req[r].result = "400" /\ pc'[r] # "ret") =>
                  /\ UNCHANGED db
                  /\ req'[r] = Idle]_vars

\* The row of store 1 was removed while a sale of the store had a line
\* reserved; _alloc_number then ended the request with 400, the stock
\* decrement still pending in its session, and no sale was made.
C32_Witness ==
    /\ ~stores[1].exists
    /\ \E r \in Req :
         /\ pc[r] = "ret"
         /\ req[r].op = "sale_new_action"
         /\ req[r].result = "400"
         /\ req[r].items # <<>>
         /\ 1 \in DOMAIN req[r].pstock
         /\ req[r].pstock[1] < products[1].stock
    /\ sales = <<>>
    /\ sale_items = <<>>

\* The product-not-found rejection of request r.
ProductRejected(r) == pc[r] = "ret" /\ req[r].result = "err_produto"

\* C33: a line that references a product that does not exist or belongs to
\* another tenant fails the reservation with product-not-found in
\* order_new_action, sale_new_action and tab_add_item alike: processing such a
\* line can only end the request rejected; a rejected request has created no
\* document and no line item, consumed no number and changed no stock, and
\* the close of its session changes nothing either; an item is added to a tab
\* only for a product of the tenant.
C33_MissingProductRejects ==
    /\ [](\A r \in Req : \A pid \in FormProductIds :
            (pc[r] \in {"on_line", "sn_line"} /\ Len(req[r].items) < MaxLines
                                              /\ ~ProductFound(r, pid)) =>
                ~ENABLED (ProcessLine(r, pid, 1) /\ ~ProductRejected(r)'))
    /\ [](\A r \in Req :
            pc[r] = "ta_product" =>
                ENABLED (tab_add_item_product(r) /\ ProductRejected(r)'))
    /\ [][\A r \in Req :
            /\ (pc[r] # "ret" /\ ProductRejected(r)') => UNCHANGED <<db, lock>>
            /\ (ProductRejected(r) /\ pc'[r] # "ret") => UNCHANGED db
            /\ (pc[r] = "ta_product" /\ pc'[r] = "ta_commit") =>
                  \E p \in ProductIds :
                      /\ products[p].store_id = req[r].store_id
                      /\ req'[r].items = <<[product_name |-> products[p].name,
                                            qty |-> req'[r].items[1].qty,
                                            price |-> products[p].price,
                                            line_total |-> req'[r].items[1].line_total]>>
                      /\ DOMAIN req'[r].pstock = {p}]_vars

\* ------------------------------------------------------------ the catalogue
\* Values of the name and price fields of POST /products/create: the name of
\* product 1 at another price, and a new name.
ProductNameInputs == {1, 3}
PriceInputs == {5}

\* A row of ProductIds no product uses: its id names the next product.
FreeProductIds == {p \in ProductIds : products[p].store_id = NULL}

\* p = Product(store_id=user.store_id, name=..., price=..., stock=...);
\* db.add(p); db.commit()
products_create(r) ==
    /\ pc[r] = "pc_create"
    /\ FreeProductIds # {}
    /\ \E name \in ProductNameInputs, price \in PriceInputs :
         LET p == CHOOSE q \in FreeProductIds : \A u \in FreeProductIds : q <= u IN
         products' = [products EXCEPT ![p] = [store_id |-> req[r].store_id,
                                              name |-> name, price |-> price,
                                              stock |-> InitStock]]
    /\ Return(r, "products")
    /\ UNCHANGED <<stores, orders, order_items, sales, sale_items, tabs, tab_items,
                   lock, nreq, features, gate, now, access>>

\* Mutant: the items that name the product go with it.
ItemsWithoutProduct(items, pid) ==
    LET Other(it) == it.product_name # products[pid].name IN SelectSeq(items, Other)

\* An item table after db.delete(p): the items carry product_name, qty, price
\* and line_total of their own and no reference to the product.
ItemsAfterDelete(items, pid) == items

\* p = db.query(Product).filter(Product.id == pid,
\*                              Product.store_id == user.store_id).first()
\* if p: db.delete(p); db.commit()
products_delete(r) ==
    /\ pc[r] = "pd_delete"
    /\ \E pid \in FormProductIds :
         IF ProductFound(r, pid)
           THEN /\ products' = [products EXCEPT ![pid].store_id = NULL]
                /\ order_items' = ItemsAfterDelete(order_items, pid)
                /\ sale_items' = ItemsAfterDelete(sale_items, pid)
                /\ tab_items' = ItemsAfterDelete(tab_items, pid)
           ELSE UNCHANGED <<products, order_items, sale_items, tab_items>>
    /\ Return(r, "products")
    /\ UNCHANGED <<stores, orders, sales, tabs, lock, nreq, features, gate, now, access>>

\* The store is set up; its users then sell, take orders, run tabs, change
\* the catalogue and ask for another segment or plan, one request at a time.
NextHistory ==
    \/ \E t \in ActiveTenants, segment \in SegmentInputs : admin_setup_action(t, segment)
    \/ \E r \in AdminReq, t \in ActiveTenants,
          op \in Ops \cup SettingsOps \cup {"products_delete"} : require_auth(r, t, op)
    \/ \E r \in AdminReq, t \in ActiveTenants :
          FreeProductIds # {} /\ require_auth(r, t, "products_create")
    \/ \E r \in AdminReq : get_db_close(r)
    \/ \E r \in AdminReq : products_create(r)
    \/ \E r \in AdminReq : products_delete(r)
    \/ \E r \in AdminReq : settings_segment(r)
    \/ \E r \in AdminReq : settings_plan(r)
    \/ \E r \in AdminReq : order_new_action_line(r)
    \/ \E r \in AdminReq : order_new_action_alloc(r)
    \/ \E r \in AdminReq : order_new_action_commit(r)
    \/ \E r \in AdminReq : order_new_action_items(r)
    \/ \E r \in AdminReq : sale_new_action_empty(r)
    \/ \E r \in AdminReq : sale_new_action_line(r)
    \/ \E r \in AdminReq : sale_new_action_alloc(r)
    \/ \E r \in AdminReq : sale_new_action_commit(r)
    \/ \E r \in AdminReq : sale_new_action_items(r)
    \/ \E r \in AdminReq : order_update_status_load(r)
    \/ \E r \in AdminReq : convert_order_to_sale_items(r)
    \/ \E r \in AdminReq : convert_order_to_sale_alloc(r)
    \/ \E r \in AdminReq : order_update_status_commit(r)
    \/ \E r \in AdminReq : tab_new_action_alloc(r)
    \/ \E r \in AdminReq : tab_new_action_commit(r)
    \/ \E r \in AdminReq : tab_add_item_load(r)
    \/ \E r \in AdminReq : tab_add_item_product(r)
    \/ \E r \in AdminReq : tab_add_item_commit(r)
    \/ \E r \in AdminReq : tab_close_load(r)
    \/ \E r \in AdminReq : tab_close_items(r)
    \/ \E r \in AdminReq : tab_close_alloc(r)
    \/ \E r \in AdminReq : tab_close_commit(r)

SpecHistory == InitAdmin /\ [][NextHistory]_vars

\* The columns of a Sale the claim names.
SaleColumns(s) == <<s.number, s.total, s.status, s.customer_name>>

\* C34: historical documents are immutable.  No step (a sale, an order, a tab
\* operation, a status change, a conversion, a product created or deleted, a
\* request for another plan or segment) changes number, total, status or
\* customer_name of a committed Sale or any column of a committed SaleItem,
\* OrderItem or TabItem, and none removes such a row.  The items of a Sale
\* or Order are those its own request commits: no other step adds one.
C34_HistoryImmutable ==
    [][/\ Len(sales') >= Len(sales)
       /\ Len(sale_items') >= Len(sale_items)
       /\ Len(order_items') >= Len(order_items)
       /\ Len(tab_items') >= Len(tab_items)
       /\ \A i \in 1..Len(sales) : SaleColumns(sales'[i]) = SaleColumns(sales[i])
       /\ \A i \in 1..Len(sale_items) : sale_items'[i] = sale_items[i]
       /\ \A i \in 1..Len(order_items) : order_items'[i] = order_items[i]
       /\ \A i \in 1..Len(tab_items) : tab_items'[i] = tab_items[i]
       /\ \A i \in (Len(sale_items) + 1)..Len(sale_items') :
            \/ sale_items'[i].sale_id > Len(sales)
            \/ \E r \in Req : pc[r] = "sn_commit2" /\ req[r].new_id = sale_items'[i].sale_id
       /\ \A i \in (Len(order_items) + 1)..Len(order_items') :
            \E r \in Req : pc[r] = "on_commit2" /\ req[r].new_id = order_items'[i].order_id
      ]_vars

\* A sale of product 1 at price 2 is committed with its item; the product was
\* then deleted and created again at price 5, and the item still shows 2.
C34_Witness ==
    /\ Len(sales) = 1
    /\ Len(sale_items) >= 1
    /\ sale_items[1].sale_id = 1
    /\ sale_items[1].product_name = 1
    /\ sale_items[1].price = 2
    /\ sales[1].total = SumLineTotal(SaleItemsOf(1))
    /\ \E p \in ProductIds :
         /\ products[p].store_id = 1
         /\ products[p].name = 1
         /\ products[p].price = 5
    /\ \A r \in Req : pc[r] = "idle"

\* Quantity the committed order, direct-sale and tab items took from product p.
ReservedFrom(p) ==
    LET OfP(it) == it.product_name = products[p].name
    IN  SumQty(SelectSeq(order_items, OfP)) + SumQty(SelectSeq(DirectSaleItems, OfP))
          + SumQty(SelectSeq(tab_items, OfP))

\* C35: stock is conserved under concurrency: in every reachable state the
\* initial stock of each product equals its current stock plus the quantity
\* of the committed OrderItems, directly-sold SaleItems and TabItems reserved
\* from it, so that no decrement is lost and no more is reserved than the
\* initial stock.
C35_StockConserved ==
    \A p \in ProductIds :
        /\ InitStock = products[p].stock + ReservedFrom(p)
        /\ ReservedFrom(p) <= InitStock

\* C36: in every reachable state a tab's total equals the sum of line_total
\* over its BarTabItems, and the Sale of every fechada tab has the tab's total
\* and items, under every interleaving of concurrent tab_add_item requests on
\* one tab and of tab_add_item with tab_close.
C36_TabTotalMatchesItems ==
    \A tid \in 1..Len(tabs) :
        /\ tabs[tid].total = SumLineTotal(TabItemsOf(tid))
        /\ tabs[tid].status = "fechada" =>
              LET sid == tabs[tid].converted_sale_id IN
              /\ sid \in 1..Len(sales)
              /\ sales[sid].total = tabs[tid].total
              /\ Snapshots(SaleItemsOf(sid)) = Snapshots(TabItemsOf(tid))

\* ------------------------------------------------------------ a fuller catalogue
\* The catalogue when each product was created with one unit more.
InitStocked ==
    /\ products = [p \in ProductIds |->
                    [store_id |-> p, name |-> p,
                     price |-> p + 1, stock |-> InitStock + 1]]
    /\ orders = <<>>
    /\ order_items = <<>>
    /\ sales = <<>>
    /\ sale_items = <<>>
    /\ tabs = <<>>
    /\ tab_items = <<>>
    /\ lock = [t \in Tenants |-> 0]
    /\ nreq = 0
    /\ pc = [r \in Req |-> "idle"]
    /\ req = [r \in Req |-> Idle]
    /\ gate = NoGate
    /\ access = NoAccess
    /\ now = 0
    /\ stores = [t \in Tenants |-> NewStore("deposito", 0)]
    /\ features = OpenFlags

SpecStocked == InitStocked /\ [][Next]_vars

\* C37: across order, sale and tab operations the stock of a product never
\* increases, and no step of order_update_status (a cancellation included)
\* changes the stock of any product: what an order reserved is never returned.
C37_StockNeverIncreases ==
    [][/\ \A p \in ProductIds : products'[p].stock <= products[p].stock
       /\ \A r \in Req :
            (req[r].op = "order_update_status" /\ pc'[r] # pc[r])
                => products' = products]_vars

\* The store_features rows of store t in a table.
FlagsOf(rows, t) == {f \in rows : f.store_id = t}

\* C38: logging in to tenant A, or setting up a new tenant A, changes no
\* persisted state of another tenant B: the row of B (its paid_until with it)
\* and the feature-flag rows of B are the same before and after; and
\* ensure_trial never overwrites a paid_until that is already set.
C38_LoginLeavesOtherTenants ==
    [][\A A \in Tenants :
         (login_action(A) \/ \E segment \in SegmentInputs : admin_setup_action(A, segment))
            => /\ \A B \in Tenants \ {A} :
                    /\ stores'[B] = stores[B]
                    /\ FlagsOf(features', B) = FlagsOf(features, B)
               /\ \A t \in Tenants :
                    (stores[t].exists /\ stores[t].paid_until # NoTime)
                        => stores'[t].paid_until = stores[t].paid_until]_vars

\* ------------------------------------------------------------ loja_mvp.py
\* The single-file variant: orders carry free-text items and no number, and
\* the delivery of an order makes the sale and takes the items from stock.

\* Values of one line of POST /orders/create: item_name, item_qty, item_price.
LegacyLineInputs == [product_name : {1}, qty : {0, 1}, price : {2}]

\* The forms of POST /orders/create, of up to MaxLines lines.
RECURSIVE LegacyForms(_)
LegacyForms(n) ==
    IF n = 0 THEN {<<>>}
    ELSE LET shorter == LegacyForms(n - 1)
         IN  shorter \cup {Append(f, l) : f \in shorter, l \in LegacyLineInputs}

\* for n, q, pr in zip(...): if qty <= 0: continue; lines.append(...)
RECURSIVE LegacyLines(_)
LegacyLines(form) ==
    IF form = <<>> THEN <<>>
    ELSE LET l == Head(form) IN
         IF l.qty <= 0 THEN LegacyLines(Tail(form))
         ELSE <<[product_name |-> l.product_name, qty |-> l.qty, price |-> l.price,
                 line_total |-> l.qty * l.price]>> \o LegacyLines(Tail(form))

LegacyOps == {"order_create", "order_set_status"}

LegacyFirstPc(op) == IF op = "order_create" THEN "lc_lines" ELSE "ls_load"

\* require_auth of loja_mvp.py: the user of the cookies; no subscription and
\* no feature flag is looked at.
legacy_require_auth(r, t, op) ==
    /\ pc[r] = "idle"
    /\ \A q \in Req : q < r => pc[q] # "idle"
    /\ nreq < MaxRequests
    /\ nreq' = nreq + 1
    /\ pc' = [pc EXCEPT ![r] = LegacyFirstPc(op)]
    /\ req' = [req EXCEPT ![r] = [Idle EXCEPT !.op = op, !.store_id = t]]
    /\ UNCHANGED <<db, lock, features, gate, now, access>>

\* order_create: the loop over the lines, then
\* order = Order(..., total=total, status="novo"); db.add(order); db.commit()
order_create_commit(r) ==
    /\ pc[r] = "lc_lines"
    /\ \E form \in LegacyForms(MaxLines) :
         LET lines == LegacyLines(form) IN
         /\ orders' = Append(orders, [store_id |-> req[r].store_id,
                                      customer_name |-> "Ana", status |-> "novo",
                                      total |-> SumLineTotal(lines)])
         /\ req' = [req EXCEPT ![r].items = lines, ![r].new_id = Len(orders) + 1]
    /\ pc' = [pc EXCEPT ![r] = "lc_items"]
    /\ UNCHANGED <<stores, products, order_items, sales, sale_items, tabs, tab_items,
                   lock, nreq, features, gate, now, access>>

\* for ... in lines: db.add(OrderItem(order_id=order.id, ...)) -- db.commit()
order_create_items(r) ==
    /\ pc[r] = "lc_items"
    /\ order_items' = order_items \o
          [i \in 1..Len(req[r].items) |->
              [order_id |-> req[r].new_id] @@ req[r].items[i]]
    /\ Return(r, "orders")
    /\ UNCHANGED <<stores, products, orders, sales, sale_items, tabs, tab_items,
                   lock, nreq, features, gate, now, access>>

LegacyStatuses == {"novo", "separando", "saiu", "entregue", "cancelado"}

\* Values of the form field `status` of POST /orders/{order_id}/status.
LegacyStatusInputs == {"novo", "Entregue ", "cancelado", "pago"}

\* Mutant: the value is not checked.
StatusUnchecked(status) == TRUE

\* valid = {...}; `if status not in valid` is false
StatusValid(status) == status \in LegacyStatuses

\* order = db.query(Order)...first(): 404 when there is none;
\* status = (status or "").strip().lower(); 400 when it is not valid;
\* order.status = status
order_set_status_load(r) ==
    /\ pc[r] = "ls_load"
    /\ \E oid \in 1..(Len(orders) + 1), raw \in LegacyStatusInputs :
         LET status == StripLower(raw) IN
         IF ~OrderFound(r, oid)
           THEN ReturnEarly(r, "404")
           ELSE LET loaded == [NoDoc EXCEPT !.id = oid, !.status = orders[oid].status,
                                            !.total = orders[oid].total,
                                            !.customer_name = orders[oid].customer_name]
                IN  IF ~StatusValid(status)
                      THEN /\ pc' = [pc EXCEPT ![r] = "ret"]
                           /\ req' = [req EXCEPT ![r].doc = loaded, ![r].status = status,
                                                 ![r].result = "400"]
                      ELSE /\ pc' = [pc EXCEPT ![r] = "ls_commit1"]
                           /\ req' = [req EXCEPT ![r].doc = loaded, ![r].status = status]
    /\ UNCHANGED <<db, lock, nreq, features, gate, now, access>>

\* db.commit(): the status is written when the request changed it.
order_set_status_commit(r) ==
    LET oid == req[r].doc.id IN
    /\ pc[r] = "ls_commit1"
    /\ orders' = IF req[r].status # req[r].doc.status
                   THEN [orders EXCEPT ![oid].status = req[r].status] ELSE orders
    /\ IF req[r].status = "entregue"
         THEN /\ pc' = [pc EXCEPT ![r] = "ls_sale"]
              /\ UNCHANGED req
         ELSE Return(r, "ok")
    /\ UNCHANGED <<stores, products, order_items, sales, sale_items, tabs, tab_items,
                   lock, nreq, features, gate, now, access>>

\* items = db.query(OrderItem)...all(); sale = Sale(..., total=order.total,
\* status="concluida"); db.add(sale); db.commit(); db.refresh(sale)
order_set_status_sale(r) ==
    LET oid == req[r].doc.id IN
    /\ pc[r] = "ls_sale"
    /\ sales' = Append(sales, [store_id |-> req[r].store_id,
                               customer_name |-> orders[oid].customer_name,
                               status |-> "concluida", total |-> orders[oid].total,
                               src |-> <<"order", oid>>])
    /\ req' = [req EXCEPT ![r].src = Snapshots(OrderItemsOf(oid)),
                          ![r].new_id = Len(sales) + 1]
    /\ pc' = [pc EXCEPT ![r] = "ls_stock"]
    /\ UNCHANGED <<stores, products, orders, order_items, sale_items, tabs, tab_items,
                   lock, nreq, features, gate, now, access>>

\* The stock the loop leaves pending for product p: for each item of that
\* name, p.stock = max(0, int(p.stock) - int(it.qty)).
RECURSIVE LegacyStockLeft(_, _, _)
LegacyStockLeft(stock, items, name) ==
    IF items = <<>> THEN stock
    ELSE LET it == Head(items)
             left == IF it.product_name = name
                       THEN (IF stock - it.qty < 0 THEN 0 ELSE stock - it.qty)
                       ELSE stock
         IN  LegacyStockLeft(left, Tail(items), name)

\* for it in items: db.add(SaleItem(...)); p = db.query(Product).filter(store,
\* name)...first(); if p: p.stock = max(0, ...)
order_set_status_stock(r) ==
    /\ pc[r] = "ls_stock"
    /\ LET touched == {p \in ProductIds :
                         /\ products[p].store_id = req[r].store_id
                         /\ \E i \in 1..Len(req[r].src) :
                              req[r].src[i].product_name = products[p].name}
       IN  req' = [req EXCEPT ![r].pstock =
                      [p \in touched |->
                          LegacyStockLeft(products[p].stock, req[r].src, products[p].name)]]
    /\ pc' = [pc EXCEPT ![r] = "ls_commit3"]
    /\ UNCHANGED <<db, lock, nreq, features, gate, now, access>>

\* db.commit(): the SaleItems and the stock
order_set_status_items(r) ==
    /\ pc[r] = "ls_commit3"
    /\ sale_items' = sale_items \o CopyToSaleItems(req[r].new_id, req[r].src)
    /\ products' = FlushStock(r)
    /\ Return(r, "ok")
    /\ UNCHANGED <<stores, orders, order_items, sales, tabs, tab_items,
                   lock, nreq, features, gate, now, access>>

NextLegacy ==
    \/ \E r \in Req, t \in ActiveTenants, op \in LegacyOps : legacy_require_auth(r, t, op)
    \/ \E r \in Req : get_db_close(r)
    \/ \E r \in Req : order_create_commit(r)
    \/ \E r \in Req : order_create_items(r)
    \/ \E r \in Req : order_set_status_load(r)
    \/ \E r \in Req : order_set_status_commit(r)
    \/ \E r \in Req : order_set_status_sale(r)
    \/ \E r \in Req : order_set_status_stock(r)
    \/ \E r \in Req : order_set_status_items(r)

SpecLegacy == Init /\ [][NextLegacy]_vars

\* The steps of order_set_status (loja_mvp.py) that C39 speaks of, common to
\* its two readings: an order that is found and a status that is not valid
\* give 400 and nothing else gives 400, the step and the close of the
\* session after it change no table, and only a valid status is committed.
LegacyStatusChecked ==
    \A r \in Req :
      /\ (pc[r] = "ls_load" /\ pc'[r] # "ls_load" /\ req'[r].doc.id # NULL) =>
            /\ (req'[r].status \notin LegacyStatuses)
                  <=> (pc'[r] = "ret" /\ req'[r].result = "400")
            /\ (req'[r].status \in LegacyStatuses) <=> (pc'[r] = "ls_commit1")
            /\ UNCHANGED db
      /\ (pc[r] = "ret" /\ req[r].result = "400" /\ pc'[r] # "ret") => UNCHANGED db
      /\ (pc[r] = "ls_commit1" /\ pc'[r] # "ls_commit1") =>
            req[r].status \in LegacyStatuses

\* C39 as the specification states it: an invalid status is rejected with 400
\* and leaves orders, sales and stock unchanged, and with a valid status the
\* commit leaves exactly that value as the stored status of the order.
C39_StatusStoredAtCommit ==
    [][/\ LegacyStatusChecked
       /\ \A r \in Req :
            (pc[r] = "ls_commit1" /\ pc'[r] # "ls_commit1") =>
               orders'[req[r].doc.id].status = req[r].status]_vars

\* C39 (amended): order_set_status of loja_mvp.py, with the status read after
\* strip().lower(): a value outside {novo, separando, saiu, entregue,
\* cancelado} is rejected with 400 and no order, sale or stock changes; a
\* value inside the set is committed as the status of that order, and of no
\* other, when it differs from the status the handler loaded; when it equals
\* the loaded status the commit writes nothing, so the status a concurrent
\* request committed in between stays.
C39_LegacyStatusValidated ==
    [][/\ LegacyStatusChecked
       /\ \A r \in Req :
            (pc[r] = "ls_commit1" /\ pc'[r] # "ls_commit1") =>
               orders' = IF req[r].status # req[r].doc.status
                           THEN [orders EXCEPT ![req[r].doc.id].status = req[r].status]
                           ELSE orders]_vars

\* One request was refused for "pago" on an order that is there, and an order,
\* made with the status novo, holds the valid status another request wrote.
C39_Witness ==
    /\ \E r \in Req :
         /\ req[r].op = "order_set_status" /\ pc[r] = "ret" /\ req[r].result = "400"
         /\ req[r].status = "pago" /\ req[r].doc.id \in 1..Len(orders)
    /\ \E o \in 1..Len(orders) : orders[o].status = "cancelado"

=============================================================================
